---- MODULE Spec2Model ----
(***************************************************************************)
(* Model of the emulated MMU of riscv-emu (riscv-emu/src/mmu.rs): a flat   *)
(* byte arena with one permission byte per data byte, block-granular dirty *)
(* tracking with fork/reset, and the guard-separated bump allocator.       *)
(*                                                                         *)
(* An Mmu is a record with the fields of the Rust struct.                   *)
(*   memory, perms: byte vectors of length size.  A vector is held as the  *)
(*     function from the indices of its non-zero bytes to those bytes;     *)
(*     every other index of 0..size-1 holds 0 (Get reads a byte).  Equal   *)
(*     vectors have equal representations, since no zero is ever stored.   *)
(*   dirty: the sequence of block indices.                                 *)
(*   dirty_bitmap: a function on 0..len-1; a u64 word is held as the set   *)
(*     of the positions of its 1 bits.                                     *)
(*   active_allocs: a function from base addresses to sizes.               *)
(***************************************************************************)
EXTENDS Integers, Sequences, FiniteSets, TLC

VARIABLES mmu, other, last, pristine, budget

vars == <<mmu, other, last, pristine, budget>>

----------------------------------------------------------------------------
(* Program constants *)

PERM_EXEC == 1
PERM_WRITE == 2
PERM_READ == 4
PERM_RAW == 8
DIRTY_BLOCK_SIZE == 1024

(* Width of usize in bits on the modelled target, and usize::MAX. *)
UsizeBits == 17
UsizeMax == 2^UsizeBits - 1

(* The number of calls a run makes. *)
MaxCalls == 3

(* The largest size asked of malloc in SpecMalloc. *)
MaxMallocSize == 40

----------------------------------------------------------------------------
(* u8 bit operations *)

RECURSIVE BitAndN(_, _, _)
BitAndN(a, b, n) ==
    IF n = 0 THEN 0
    ELSE (IF a % 2 = 1 /\ b % 2 = 1 THEN 1 ELSE 0)
         + 2 * BitAndN(a \div 2, b \div 2, n - 1)

RECURSIVE BitOrN(_, _, _)
BitOrN(a, b, n) ==
    IF n = 0 THEN 0
    ELSE (IF a % 2 = 1 \/ b % 2 = 1 THEN 1 ELSE 0)
         + 2 * BitOrN(a \div 2, b \div 2, n - 1)

BitAnd(a, b) == BitAndN(a, b, 8)
BitOr(a, b) == BitOrN(a, b, 8)
BitNot(a) == 255 - a

----------------------------------------------------------------------------
(* Byte vectors *)

(* v[i] *)
Get(v, i) == IF i \in DOMAIN v THEN v[i] ELSE 0

(* vec![0; n] *)
Zeroes == [i \in {} |-> 0]

(* v[lo..hi].iter_mut().for_each(|p| *p = b) *)
FillRange(v, lo, hi, b) ==
    LET keep == {i \in DOMAIN v : i < lo \/ i >= hi}
        new == IF b = 0 THEN {} ELSE lo..(hi - 1)
    IN [i \in keep \cup new |-> IF lo <= i /\ i < hi THEN b ELSE v[i]]

(* v[lo..hi].copy_from_slice(src), src a sequence of hi - lo bytes *)
CopyFromSeq(v, lo, hi, src) ==
    LET keep == {i \in DOMAIN v : i < lo \/ i >= hi}
        new == {i \in lo..(hi - 1) : src[i - lo + 1] # 0}
    IN [i \in keep \cup new |-> IF lo <= i /\ i < hi THEN src[i - lo + 1] ELSE v[i]]

(* v[lo..hi].copy_from_slice(&w[lo..hi]) *)
CopyFromVec(v, lo, hi, w) ==
    LET keep == {i \in DOMAIN v : i < lo \/ i >= hi}
        new == {i \in DOMAIN w : lo <= i /\ i < hi}
    IN [i \in keep \cup new |-> IF lo <= i /\ i < hi THEN w[i] ELSE v[i]]

(* v[lo..hi] as a sequence *)
Slice(v, lo, hi) == [k \in 1..(hi - lo) |-> Get(v, lo + k - 1)]

----------------------------------------------------------------------------
(* Results.  An operation yields [kind, addr, size]; kind "Ok" on success. *)

(* Error::UnkFault also carries exp and cur; they are 0 in every other     *)
(* result.  Error::InvalidFree carries only addr, its size is 0.           *)
Ok == [kind |-> "Ok", addr |-> 0, size |-> 0, exp |-> 0, cur |-> 0]
Err(k, addr, size) == [kind |-> k, addr |-> addr, size |-> size, exp |-> 0, cur |-> 0]
UnkFault(addr, size, exp, cur) ==
    [kind |-> "UnkFault", addr |-> addr, size |-> size, exp |-> exp, cur |-> cur]

----------------------------------------------------------------------------
(* Mmu::new *)

(* new with a dirty_bitmap of one bit per block. *)
New_bit_per_block(size) ==
    LET dirty_size == (size + DIRTY_BLOCK_SIZE - 1) \div DIRTY_BLOCK_SIZE
        dirty_bitmap_size == (dirty_size + 63) \div 64
    IN [size |-> size,
        memory |-> Zeroes,
        perms |-> Zeroes,
        dirty |-> <<>>,
        dirty_bitmap |-> [w \in 0..(dirty_bitmap_size - 1) |-> {}],
        brk |-> 0,
        active_allocs |-> [a \in {} |-> 0]]

New(size) ==
    LET dirty_size == (size + DIRTY_BLOCK_SIZE - 1) \div DIRTY_BLOCK_SIZE
        dirty_bitmap_size == dirty_size + (63 \div 64)
    IN [size |-> size,
        memory |-> Zeroes,
        perms |-> Zeroes,
        dirty |-> <<>>,
        dirty_bitmap |-> [w \in 0..(dirty_bitmap_size - 1) |-> {}],
        brk |-> 0,
        active_allocs |-> [a \in {} |-> 0]]

(* fork that copies the dirty list and the bitmap too. *)
fork_keeps_dirty(m) == m

(* Mmu::fork *)
fork(m) ==
    [size |-> m.size,
     memory |-> m.memory,
     perms |-> m.perms,
     dirty |-> <<>>,
     dirty_bitmap |-> [w \in DOMAIN m.dirty_bitmap |-> {}],
     brk |-> m.brk,
     active_allocs |-> m.active_allocs]

(* The loop of update_dirty without the bitmap test: every block of the    *)
(* range is pushed.                                                        *)
RECURSIVE DirtyBlocks_always_push(_, _, _)
DirtyBlocks_always_push(m, block, block_end) ==
    IF block >= block_end THEN m
    ELSE LET idx == block \div 64
             bit == block % 64
             m1 == [m EXCEPT !.dirty_bitmap[idx] = @ \cup {bit},
                             !.dirty = Append(@, block)]
         IN DirtyBlocks_always_push(m1, block + 1, block_end)

(* Mmu::update_dirty *)
RECURSIVE DirtyBlocks(_, _, _)
DirtyBlocks(m, block, block_end) ==
    IF block >= block_end THEN m
    ELSE LET idx == block \div 64
             bit == block % 64
             m1 == IF bit \notin m.dirty_bitmap[idx]
                   THEN [m EXCEPT !.dirty_bitmap[idx] = @ \cup {bit},
                                  !.dirty = Append(@, block)]
                   ELSE m
         IN DirtyBlocks(m1, block + 1, block_end)

(* update_dirty that always goes one block beyond the block of the end. *)
update_dirty_next_block(m, addr, size) ==
    LET block_start == addr \div DIRTY_BLOCK_SIZE
        block_end == ((addr + size) \div DIRTY_BLOCK_SIZE) + 1
    IN DirtyBlocks(m, block_start, block_end)

(* update_dirty that rounds the end of the range up by two blocks less two *)
(* bytes.                                                                  *)
update_dirty_rounds_up_twice(m, addr, size) ==
    LET block_start == addr \div DIRTY_BLOCK_SIZE
        block_end == (addr + size + 2 * (DIRTY_BLOCK_SIZE - 1)) \div DIRTY_BLOCK_SIZE
    IN DirtyBlocks(m, block_start, block_end)

(* update_dirty that marks the block of addr only. *)
update_dirty_first_block(m, addr, size) ==
    DirtyBlocks(m, addr \div DIRTY_BLOCK_SIZE, addr \div DIRTY_BLOCK_SIZE + 1)

update_dirty(m, addr, size) ==
    LET block_start == addr \div DIRTY_BLOCK_SIZE
        block_end == (addr + size + (DIRTY_BLOCK_SIZE - 1)) \div DIRTY_BLOCK_SIZE
    IN DirtyBlocks(m, block_start, block_end)

(* set_perms that leaves the last byte of the range as it was. *)
set_perms_short(m, addr, size, perms) ==
    IF addr + size > UsizeMax
    THEN [m |-> m, res |-> Err("AddressIntegerOverflow", addr, size)]
    ELSE IF addr + size > m.size
    THEN [m |-> m, res |-> Err("InvalidAddress", addr, size)]
    ELSE LET end == addr + size
             m1 == [m EXCEPT !.perms = FillRange(@, addr, end - 1, perms)]
         IN [m |-> update_dirty(m1, addr, size), res |-> Ok]

(* Mmu::set_perms *)
set_perms(m, addr, size, perms) ==
    IF addr + size > UsizeMax
    THEN [m |-> m, res |-> Err("AddressIntegerOverflow", addr, size)]
    ELSE IF addr + size > m.size
    THEN [m |-> m, res |-> Err("InvalidAddress", addr, size)]
    ELSE LET end == addr + size
             m1 == [m EXCEPT !.perms = FillRange(@, addr, end, perms)]
         IN [m |-> update_dirty(m1, addr, size), res |-> Ok]

(* Mmu::perms *)
perms_of(m, addr, size) ==
    IF addr + size > UsizeMax
    THEN [res |-> Err("AddressIntegerOverflow", addr, size), ret |-> <<>>]
    ELSE IF addr + size > m.size
    THEN [res |-> Err("InvalidAddress", addr, size), ret |-> <<>>]
    ELSE [res |-> Ok, ret |-> Slice(m.perms, addr, addr + size)]

(* check_byte with the two tests in the other order: the missing-flag test *)
(* first, the RAW test second.                                             *)
check_byte_mask_first(p, addr, size, perms) ==
    IF BitAnd(p, perms) # perms
    THEN IF BitAnd(perms, PERM_READ) # 0 THEN Err("ReadFault", addr, size)
         ELSE IF BitAnd(perms, PERM_WRITE) # 0 THEN Err("WriteFault", addr, size)
         ELSE IF BitAnd(perms, PERM_EXEC) # 0 THEN Err("ExecFault", addr, size)
         ELSE UnkFault(addr, size, perms, p)
    ELSE IF BitAnd(perms, PERM_READ) # 0 /\ BitAnd(p, PERM_RAW) # 0
    THEN Err("UninitFault", addr, size)
    ELSE Ok

(* The body of the loop of Mmu::check_perms for one permission byte p:     *)
(* the error it returns, or Ok when the byte passes.                       *)
check_byte(p, addr, size, perms) ==
    IF BitAnd(perms, PERM_READ) # 0 /\ BitAnd(p, PERM_RAW) # 0
    THEN Err("UninitFault", addr, size)
    ELSE IF BitAnd(p, perms) # perms
    THEN IF BitAnd(perms, PERM_READ) # 0 THEN Err("ReadFault", addr, size)
         ELSE IF BitAnd(perms, PERM_WRITE) # 0 THEN Err("WriteFault", addr, size)
         ELSE IF BitAnd(perms, PERM_EXEC) # 0 THEN Err("ExecFault", addr, size)
         ELSE UnkFault(addr, size, perms, p)
    ELSE Ok

(* The loop of Mmu::check_perms over the bytes i..end-1, ascending. *)
RECURSIVE check_range(_, _, _, _, _, _)
check_range(m, i, end, addr, size, perms) ==
    IF i >= end THEN Ok
    ELSE LET r == check_byte(Get(m.perms, i), addr, size, perms)
         IN IF r.kind # "Ok" THEN r
            ELSE check_range(m, i + 1, end, addr, size, perms)

(* check_perms without checked_add: an end beyond usize is reported as an  *)
(* invalid address.                                                        *)
check_perms_unchecked_add(m, addr, size, perms) ==
    IF addr + size > m.size
    THEN Err("InvalidAddress", addr, size)
    ELSE check_range(m, addr, addr + size, addr, size, perms)

(* Mmu::check_perms *)
check_perms(m, addr, size, perms) ==
    IF addr + size > UsizeMax
    THEN Err("AddressIntegerOverflow", addr, size)
    ELSE IF addr + size > m.size
    THEN Err("InvalidAddress", addr, size)
    ELSE check_range(m, addr, addr + size, addr, size, perms)

(* promote without "& !PERM_RAW": the byte gains READ and keeps RAW. *)
promote_keeps_raw(p) == BitOr(p, PERM_READ)

(* The RAW promotion of Mmu::write_with_perms for one permission byte p    *)
(* that passed the filter p & PERM_RAW != 0.                               *)
promote(p) == BitAnd(BitOr(p, PERM_READ), BitNot(PERM_RAW))

(* PromoteRange without the filter: every byte of the range is promoted. *)
PromoteRange_no_filter(v, lo, hi) ==
    LET new == {i \in lo..(hi - 1) : promote(Get(v, i)) # 0}
        keep == {i \in DOMAIN v : i < lo \/ i >= hi}
    IN [i \in keep \cup new |-> IF lo <= i /\ i < hi THEN promote(Get(v, i)) ELSE v[i]]

(* perms[lo..hi].iter_mut().filter(|p| p & PERM_RAW != 0)                  *)
(*     .for_each(|p| *p = promote(p))                                      *)
(* A byte carrying RAW is not 0 and its promotion carries READ, so the     *)
(* non-zero bytes stay the same indices.                                   *)
PromoteRange(v, lo, hi) ==
    [i \in DOMAIN v |->
        IF lo <= i /\ i < hi /\ BitAnd(v[i], PERM_RAW) # 0 THEN promote(v[i])
        ELSE v[i]]

(* write_with_perms with the copy moved before the permission check: on a *)
(* permission fault the bytes have already been stored.                    *)
write_with_perms_copy_first(m, addr, src, perms) ==
    LET size == Len(src)
        chk == check_perms(m, addr, size, perms)
        end == addr + size
    IN IF chk.kind \in {"AddressIntegerOverflow", "InvalidAddress"}
       THEN [m |-> m, res |-> chk]
       ELSE LET m1 == [m EXCEPT !.memory = CopyFromSeq(@, addr, end, src)]
            IN IF chk.kind # "Ok" THEN [m |-> m1, res |-> chk]
               ELSE LET m2 == IF BitAnd(perms, PERM_WRITE) # 0
                              THEN [m1 EXCEPT !.perms = PromoteRange(@, addr, end)]
                              ELSE m1
                    IN [m |-> update_dirty(m2, addr, size), res |-> Ok]

(* write_with_perms that promotes RAW bytes whatever perms is. *)
write_with_perms_always_promotes(m, addr, src, perms) ==
    LET size == Len(src)
        chk == check_perms(m, addr, size, perms)
    IN IF chk.kind # "Ok" THEN [m |-> m, res |-> chk]
       ELSE LET end == addr + size
                m1 == [m EXCEPT !.memory = CopyFromSeq(@, addr, end, src),
                                !.perms = PromoteRange(@, addr, end)]
            IN [m |-> update_dirty(m1, addr, size), res |-> Ok]

(* Mmu::write_with_perms *)
write_with_perms(m, addr, src, perms) ==
    LET size == Len(src)
        chk == check_perms(m, addr, size, perms)
    IN IF chk.kind # "Ok" THEN [m |-> m, res |-> chk]
       ELSE LET end == addr + size
                m1 == [m EXCEPT !.memory = CopyFromSeq(@, addr, end, src)]
                m2 == IF BitAnd(perms, PERM_WRITE) # 0
                      THEN [m1 EXCEPT !.perms = PromoteRange(@, addr, end)]
                      ELSE m1
            IN [m |-> update_dirty(m2, addr, size), res |-> Ok]

(* write that expects no permission. *)
write_unchecked(m, addr, src) == write_with_perms(m, addr, src, 0)

(* Mmu::write *)
write(m, addr, src) == write_with_perms(m, addr, src, PERM_WRITE)

(* poke that checks and promotes as write does. *)
poke_as_write(m, addr, src) == write_with_perms(m, addr, src, PERM_WRITE)

(* Mmu::poke *)
poke(m, addr, src) == write_with_perms(m, addr, src, 0)

(* Mmu::read_with_perms: the result and the bytes copied into dst. *)
read_with_perms(m, addr, size, perms) ==
    LET chk == check_perms(m, addr, size, perms)
    IN IF chk.kind # "Ok" THEN [res |-> chk, ret |-> <<>>]
       ELSE [res |-> Ok, ret |-> Slice(m.memory, addr, addr + size)]

(* Mmu::read *)
read(m, addr, size) == read_with_perms(m, addr, size, PERM_READ)

(* Mmu::peek *)
peek(m, addr, size) == read_with_perms(m, addr, size, 0)

(* The integer types that implement LeBytes: size_of::<T>() and whether T  *)
(* is signed.                                                              *)
u8 == [size |-> 1, signed |-> FALSE]
u16 == [size |-> 2, signed |-> FALSE]
u32 == [size |-> 4, signed |-> FALSE]
u64 == [size |-> 8, signed |-> FALSE]
u128 == [size |-> 16, signed |-> FALSE]
i8 == [size |-> 1, signed |-> TRUE]
i16 == [size |-> 2, signed |-> TRUE]
i32 == [size |-> 4, signed |-> TRUE]
i64 == [size |-> 8, signed |-> TRUE]
i128 == [size |-> 16, signed |-> TRUE]

(* value >> (8 * k), arithmetic for a negative value *)
RECURSIVE Shr8(_, _)
Shr8(value, k) == IF k = 0 THEN value ELSE Shr8(value \div 256, k - 1)

(* to_le_bytes that stores the bytes of the value most significant first. *)
to_le_bytes_big_endian(value, T) ==
    [k \in 1..16 |-> IF k <= T.size THEN Shr8(value, T.size - k) % 256 ELSE 0]

(* LeBytes::to_le_bytes for T: the value's size_of::<T>() little-endian    *)
(* bytes (two's complement for a negative value), then zeroes up to 16.    *)
to_le_bytes(value, T) ==
    [k \in 1..16 |-> IF k <= T.size THEN Shr8(value, k - 1) % 256 ELSE 0]

(* The value of bytes[k..size_of::<T>()] as a little-endian integer of     *)
(* type T.                                                                 *)
RECURSIVE LeValue(_, _, _)
LeValue(bytes, k, T) ==
    IF k = T.size
    THEN IF T.signed /\ bytes[k] >= 128 THEN bytes[k] - 256 ELSE bytes[k]
    ELSE bytes[k] + 256 * LeValue(bytes, k + 1, T)

(* LeBytes::from_le_bytes for T: the value of the first size_of::<T>() of  *)
(* the 16 bytes.                                                           *)
from_le_bytes(bytes, T) == LeValue(bytes, 1, T)

(* Mmu::write_int_with_perms::<T> *)
write_int_with_perms(m, addr, value, T, perms) ==
    write_with_perms(m, addr, SubSeq(to_le_bytes(value, T), 1, T.size), perms)

(* Mmu::write_int::<T> *)
write_int(m, addr, value, T) == write(m, addr, SubSeq(to_le_bytes(value, T), 1, T.size))

(* Mmu::poke_int::<T> *)
poke_int(m, addr, value, T) == poke(m, addr, SubSeq(to_le_bytes(value, T), 1, T.size))

(* The 16 bytes that read_int, read_int_with_perms and peek_int hand to    *)
(* from_le_bytes: the bytes read, then zeroes.                             *)
IntBytes(m, addr, T) == [k \in 1..16 |-> IF k <= T.size THEN Get(m.memory, addr + k - 1) ELSE 0]

(* Mmu::read_int_with_perms::<T>: the result, and the value of the bytes   *)
(* read.                                                                   *)
read_int_with_perms(m, addr, T, perms) ==
    LET r == read_with_perms(m, addr, T.size, perms)
    IN IF r.res.kind # "Ok" THEN [res |-> r.res, ret |-> 0]
       ELSE [res |-> Ok,
             ret |-> from_le_bytes([k \in 1..16 |-> IF k <= T.size THEN r.ret[k] ELSE 0], T)]

(* Mmu::read_int::<T> *)
read_int(m, addr, T) == read_int_with_perms(m, addr, T, PERM_READ)

(* Mmu::peek_int::<T> *)
peek_int(m, addr, T) == read_int_with_perms(m, addr, T, 0)

(* Mmu::set_brk *)
set_brk(m, addr) == [m EXCEPT !.brk = addr]

(* aligned_size that only rounds up to 16 bytes: (size + 0xf) & !0xf *)
aligned_size_no_guard(size) == ((size + 15) \div 16) * 16

(* aligned_size of Mmu::malloc: (size + 0xfff) & !0xf, the mask clearing   *)
(* the four low bits.                                                      *)
aligned_size(size) == ((size + 4095) \div 16) * 16

(* malloc without the first set_perms: the region keeps what it held. *)
malloc_keeps_region(m, size, raw) ==
    IF size + 4095 > UsizeMax
    THEN [m |-> m, res |-> Err("AddressIntegerOverflow", m.brk, size), ret |-> 0]
    ELSE LET asz == aligned_size(size)
             perms == IF raw THEN BitOr(PERM_WRITE, PERM_RAW)
                             ELSE BitOr(PERM_WRITE, PERM_READ)
             s2 == set_perms(m, m.brk, size, perms)
         IN IF s2.res.kind # "Ok" THEN [m |-> m, res |-> s2.res, ret |-> 0]
            ELSE [m |-> [s2.m EXCEPT
                           !.active_allocs =
                               [a \in DOMAIN @ \cup {m.brk} |->
                                   IF a = m.brk THEN size ELSE @[a]],
                           !.brk = m.brk + asz],
                  res |-> Ok, ret |-> m.brk]

(* malloc with a wrapping add in place of checked_add(0xfff). *)
malloc_wrapping_add(m, size, raw) ==
    LET asz == aligned_size(size) % (UsizeMax + 1)
        s1 == set_perms(m, m.brk, asz, 0)
    IN IF s1.res.kind # "Ok" THEN [m |-> m, res |-> s1.res, ret |-> 0]
       ELSE LET perms == IF raw THEN BitOr(PERM_WRITE, PERM_RAW)
                                ELSE BitOr(PERM_WRITE, PERM_READ)
                s2 == set_perms(s1.m, m.brk, size, perms)
            IN IF s2.res.kind # "Ok"
               THEN [m |-> s1.m, res |-> s2.res, ret |-> 0]
               ELSE [m |-> [s2.m EXCEPT
                              !.active_allocs =
                                  [a \in DOMAIN @ \cup {m.brk} |->
                                      IF a = m.brk THEN size ELSE @[a]],
                              !.brk = m.brk + asz],
                     res |-> Ok, ret |-> m.brk]

(* malloc that leaves brk where it was. *)
malloc_keeps_brk(m, size, raw) ==
    IF size + 4095 > UsizeMax
    THEN [m |-> m, res |-> Err("AddressIntegerOverflow", m.brk, size), ret |-> 0]
    ELSE LET asz == aligned_size(size)
             s1 == set_perms(m, m.brk, asz, 0)
         IN IF s1.res.kind # "Ok" THEN [m |-> m, res |-> s1.res, ret |-> 0]
            ELSE LET perms == IF raw THEN BitOr(PERM_WRITE, PERM_RAW)
                                     ELSE BitOr(PERM_WRITE, PERM_READ)
                     s2 == set_perms(s1.m, m.brk, size, perms)
                 IN [m |-> [s2.m EXCEPT
                              !.active_allocs =
                                  [a \in DOMAIN @ \cup {m.brk} |->
                                      IF a = m.brk THEN size ELSE @[a]]],
                     res |-> Ok, ret |-> m.brk]

(* malloc that gives WRITE|READ whatever raw is. *)
malloc_ignores_raw(m, size, raw) ==
    IF size + 4095 > UsizeMax
    THEN [m |-> m, res |-> Err("AddressIntegerOverflow", m.brk, size), ret |-> 0]
    ELSE LET asz == aligned_size(size)
             s1 == set_perms(m, m.brk, asz, 0)
         IN IF s1.res.kind # "Ok" THEN [m |-> m, res |-> s1.res, ret |-> 0]
            ELSE LET s2 == set_perms(s1.m, m.brk, size, BitOr(PERM_WRITE, PERM_READ))
                 IN [m |-> [s2.m EXCEPT
                              !.active_allocs =
                                  [a \in DOMAIN @ \cup {m.brk} |->
                                      IF a = m.brk THEN size ELSE @[a]],
                              !.brk = m.brk + asz],
                     res |-> Ok, ret |-> m.brk]

(* Mmu::malloc: the new Mmu, the result and the address returned. *)
(* malloc that advances brk by the size rounded up to 16 only. *)
malloc_packs(m, size, raw) ==
    IF size + 4095 > UsizeMax
    THEN [m |-> m, res |-> Err("AddressIntegerOverflow", m.brk, size), ret |-> 0]
    ELSE LET asz == aligned_size(size)
             s1 == set_perms(m, m.brk, asz, 0)
         IN IF s1.res.kind # "Ok" THEN [m |-> m, res |-> s1.res, ret |-> 0]
            ELSE LET perms == IF raw THEN BitOr(PERM_WRITE, PERM_RAW)
                                     ELSE BitOr(PERM_WRITE, PERM_READ)
                     s2 == set_perms(s1.m, m.brk, size, perms)
                 IN IF s2.res.kind # "Ok"
                    THEN [m |-> s1.m, res |-> s2.res, ret |-> 0]
                    ELSE [m |-> [s2.m EXCEPT
                                   !.active_allocs =
                                       [a \in DOMAIN @ \cup {m.brk} |->
                                           IF a = m.brk THEN size ELSE @[a]],
                                   !.brk = m.brk + ((size + 15) \div 16) * 16],
                          res |-> Ok, ret |-> m.brk]

(* malloc that gives the permissions to the whole aligned region, guard    *)
(* included.                                                               *)
malloc_open_guard(m, size, raw) ==
    IF size + 4095 > UsizeMax
    THEN [m |-> m, res |-> Err("AddressIntegerOverflow", m.brk, size), ret |-> 0]
    ELSE LET asz == aligned_size(size)
             s1 == set_perms(m, m.brk, asz, 0)
         IN IF s1.res.kind # "Ok" THEN [m |-> m, res |-> s1.res, ret |-> 0]
            ELSE LET perms == IF raw THEN BitOr(PERM_WRITE, PERM_RAW)
                                     ELSE BitOr(PERM_WRITE, PERM_READ)
                     s2 == set_perms(s1.m, m.brk, asz, perms)
                 IN IF s2.res.kind # "Ok"
                    THEN [m |-> s1.m, res |-> s2.res, ret |-> 0]
                    ELSE [m |-> [s2.m EXCEPT
                                   !.active_allocs =
                                       [a \in DOMAIN @ \cup {m.brk} |->
                                           IF a = m.brk THEN size ELSE @[a]],
                                   !.brk = m.brk + asz],
                          res |-> Ok, ret |-> m.brk]

(* malloc that records the aligned size in active_allocs. *)
malloc_records_aligned(m, size, raw) ==
    IF size + 4095 > UsizeMax
    THEN [m |-> m, res |-> Err("AddressIntegerOverflow", m.brk, size), ret |-> 0]
    ELSE LET asz == aligned_size(size)
             s1 == set_perms(m, m.brk, asz, 0)
         IN IF s1.res.kind # "Ok" THEN [m |-> m, res |-> s1.res, ret |-> 0]
            ELSE LET perms == IF raw THEN BitOr(PERM_WRITE, PERM_RAW)
                                     ELSE BitOr(PERM_WRITE, PERM_READ)
                     s2 == set_perms(s1.m, m.brk, size, perms)
                 IN IF s2.res.kind # "Ok"
                    THEN [m |-> s1.m, res |-> s2.res, ret |-> 0]
                    ELSE [m |-> [s2.m EXCEPT
                                   !.active_allocs =
                                       [a \in DOMAIN @ \cup {m.brk} |->
                                           IF a = m.brk THEN asz ELSE @[a]],
                                   !.brk = m.brk + asz],
                          res |-> Ok, ret |-> m.brk]

malloc(m, size, raw) ==
    IF size + 4095 > UsizeMax
    THEN [m |-> m, res |-> Err("AddressIntegerOverflow", m.brk, size), ret |-> 0]
    ELSE LET asz == aligned_size(size)
             s1 == set_perms(m, m.brk, asz, 0)
         IN IF s1.res.kind # "Ok" THEN [m |-> m, res |-> s1.res, ret |-> 0]
            ELSE LET perms == IF raw THEN BitOr(PERM_WRITE, PERM_RAW)
                                     ELSE BitOr(PERM_WRITE, PERM_READ)
                     s2 == set_perms(s1.m, m.brk, size, perms)
                 IN IF s2.res.kind # "Ok"
                    THEN [m |-> s1.m, res |-> s2.res, ret |-> 0]
                    ELSE [m |-> [s2.m EXCEPT
                                   !.active_allocs =
                                       [a \in DOMAIN @ \cup {m.brk} |->
                                           IF a = m.brk THEN size ELSE @[a]],
                                   !.brk = m.brk + asz],
                          res |-> Ok, ret |-> m.brk]

(* free that forgets the allocation and leaves its permissions. *)
free_keeps_perms(m, addr) ==
    IF addr \in DOMAIN m.active_allocs
    THEN [m |-> [m EXCEPT !.active_allocs = [a \in DOMAIN @ \ {addr} |-> @[a]]],
          res |-> Ok]
    ELSE [m |-> m, res |-> Err("InvalidFree", addr, 0)]

(* Mmu::free *)
(* free that gives the freed region back by lowering brk to it. *)
free_lowers_brk(m, addr) ==
    IF addr \in DOMAIN m.active_allocs
    THEN LET size == m.active_allocs[addr]
             m1 == [m EXCEPT !.active_allocs = [a \in DOMAIN @ \ {addr} |-> @[a]]]
             s == set_perms(m1, addr, size, 0)
         IN [m |-> [s.m EXCEPT !.brk = addr], res |-> s.res]
    ELSE [m |-> m, res |-> Err("InvalidFree", addr, 0)]

free(m, addr) ==
    IF addr \in DOMAIN m.active_allocs
    THEN LET size == m.active_allocs[addr]
             m1 == [m EXCEPT !.active_allocs = [a \in DOMAIN @ \ {addr} |-> @[a]]]
             s == set_perms(m1, addr, size, 0)
         IN [m |-> s.m, res |-> s.res]
    ELSE [m |-> m, res |-> Err("InvalidFree", addr, 0)]

(* alloc_size that gives Some(0) where there is no allocation. *)
alloc_size_zero_for_none(m, addr) ==
    IF addr \in DOMAIN m.active_allocs THEN m.active_allocs[addr] ELSE 0

(* Mmu::alloc_size: the size, or -1 for None. *)
alloc_size(m, addr) ==
    IF addr \in DOMAIN m.active_allocs THEN m.active_allocs[addr] ELSE -1

(* reset_block that leaves the bitmap word as it was. *)
reset_block_keeps_bitmap(m, o, block) ==
    LET start == block * DIRTY_BLOCK_SIZE
        end == (block + 1) * DIRTY_BLOCK_SIZE
    IN IF end > m.size \/ end > o.size
       THEN [m |-> m, panic |-> TRUE]
       ELSE [m |-> [m EXCEPT
                      !.memory = CopyFromVec(@, start, end, o.memory),
                      !.perms = CopyFromVec(@, start, end, o.perms)],
             panic |-> FALSE]

(* One iteration of the loop of Mmu::reset, for the dirty block `block`:   *)
(* the bitmap word is cleared, then the block of memory and of perms is    *)
(* copied from other.  Slicing start..end panics when end exceeds the      *)
(* length of the receiver's or of the donor's buffer.                      *)
reset_block(m, o, block) ==
    LET start == block * DIRTY_BLOCK_SIZE
        end == (block + 1) * DIRTY_BLOCK_SIZE
        m1 == [m EXCEPT !.dirty_bitmap[block \div 64] = {}]
    IN IF end > m.size \/ end > o.size
       THEN [m |-> m1, panic |-> TRUE]
       ELSE [m |-> [m1 EXCEPT
                      !.memory = CopyFromVec(@, start, end, o.memory),
                      !.perms = CopyFromVec(@, start, end, o.perms)],
             panic |-> FALSE]

(* The loop of Mmu::reset over dirty[k..], in order. *)
RECURSIVE reset_blocks(_, _, _)
reset_blocks(m, o, k) ==
    IF k > Len(m.dirty) THEN [m |-> m, panic |-> FALSE]
    ELSE LET r == reset_block(m, o, m.dirty[k])
         IN IF r.panic THEN r ELSE reset_blocks(r.m, o, k + 1)

(* reset that restores the last dirty block only and drops it from the     *)
(* list.                                                                   *)
reset_one_block(m, o) ==
    LET r == IF m.dirty = <<>> THEN [m |-> m, panic |-> FALSE]
             ELSE reset_block(m, o, m.dirty[Len(m.dirty)])
    IN IF r.panic THEN r
       ELSE [m |-> [r.m EXCEPT !.dirty = SubSeq(@, 1, Len(@) - 1),
                               !.brk = o.brk,
                               !.active_allocs = o.active_allocs],
             panic |-> FALSE]

(* reset that leaves brk as it was. *)
reset_keeps_brk(m, o) ==
    LET r == reset_blocks(m, o, 1)
    IN IF r.panic THEN r
       ELSE [m |-> [r.m EXCEPT !.dirty = <<>>,
                               !.active_allocs = o.active_allocs],
             panic |-> FALSE]

(* Mmu::reset: the new Mmu, and whether the call panicked (the Mmu is then *)
(* left as the panic found it).                                            *)
reset(m, o) ==
    LET r == reset_blocks(m, o, 1)
    IN IF r.panic THEN r
       ELSE [m |-> [r.m EXCEPT !.dirty = <<>>,
                               !.brk = o.brk,
                               !.active_allocs = o.active_allocs],
             panic |-> FALSE]

----------------------------------------------------------------------------
(* The system: a receiver `mmu` and a donor `other` of the same size, and  *)
(* the calls a client makes on them.                                       *)
(*   last      the last call: its name, the Mmu it was made on, its        *)
(*             arguments, its result (res), the address (ret) or the bytes *)
(*             (data) it returned, and whether it panicked                 *)
(*   pristine  other has not changed since mmu was created as its copy     *)
(*   budget    the number of calls the client still makes                  *)

Rec(op, on, addr, size, src, perms, raw, res, ret, data, panic) ==
    [op |-> op, on |-> on, addr |-> addr, size |-> size, src |-> src,
     perms |-> perms, raw |-> raw, res |-> res, ret |-> ret, data |-> data,
     panic |-> panic, signed |-> FALSE]

(* The record of a call of an integer operation on type T. *)
IntRec(op, on, addr, T, src, perms, res, ret) ==
    [Rec(op, on, addr, T.size, src, perms, FALSE, res, ret, <<>>, FALSE)
        EXCEPT !.signed = T.signed]

NoCall == Rec("new", "mmu", 0, 0, <<>>, 0, FALSE, Ok, 0, <<>>, FALSE)

M(t) == IF t = "mmu" THEN mmu ELSE other

(* A call on t that takes &mut self and leaves t as m2. *)
Call(t, m2, l) ==
    /\ ~last.panic
    /\ budget > 0
    /\ budget' = budget - 1
    /\ last' = l
    /\ IF t = "mmu"
       THEN mmu' = m2 /\ other' = other /\ pristine' = pristine
       ELSE other' = m2 /\ mmu' = mmu /\ pristine' = (pristine /\ m2 = other)

(* A call on t that takes &self. *)
Query(t, l) ==
    /\ ~last.panic
    /\ budget > 0
    /\ budget' = budget - 1
    /\ last' = l
    /\ UNCHANGED <<mmu, other, pristine>>

SetPerms(T, A, S, P) ==
    \E t \in T, addr \in A, size \in S, p \in P :
        LET r == set_perms(M(t), addr, size, p)
        IN /\ Call(t, r.m, Rec("set_perms", t, addr, size, <<>>, p, FALSE,
                            r.res, 0, <<>>, FALSE))

WriteWithPerms(T, A, D, P) ==
    \E t \in T, addr \in A, src \in D, p \in P :
        LET r == write_with_perms(M(t), addr, src, p)
        IN /\ Call(t, r.m, Rec("write_with_perms", t, addr, Len(src), src, p, FALSE,
                            r.res, 0, <<>>, FALSE))

Write(T, A, D) ==
    \E t \in T, addr \in A, src \in D :
        LET r == write(M(t), addr, src)
        IN /\ Call(t, r.m, Rec("write", t, addr, Len(src), src, PERM_WRITE, FALSE,
                            r.res, 0, <<>>, FALSE))

Poke(T, A, D) ==
    \E t \in T, addr \in A, src \in D :
        LET r == poke(M(t), addr, src)
        IN /\ Call(t, r.m, Rec("poke", t, addr, Len(src), src, 0, FALSE,
                            r.res, 0, <<>>, FALSE))

SetBrk(T, A) ==
    \E t \in T, addr \in A :
        /\ Call(t, set_brk(M(t), addr),
                Rec("set_brk", t, addr, 0, <<>>, 0, FALSE, Ok, 0, <<>>, FALSE))

Malloc(T, S, R) ==
    \E t \in T, size \in S, raw \in R :
        LET r == malloc(M(t), size, raw)
        IN /\ Call(t, r.m, Rec("malloc", t, M(t).brk, size, <<>>, 0, raw,
                            r.res, r.ret, <<>>, FALSE))

Free(T, A) ==
    \E t \in T, addr \in A :
        LET r == free(M(t), addr)
        IN /\ Call(t, r.m, Rec("free", t, addr, 0, <<>>, 0, FALSE,
                            r.res, 0, <<>>, FALSE))

(* mmu = other.fork() *)
Fork ==
    /\ ~last.panic
    /\ budget > 0
    /\ budget' = budget - 1
    /\ mmu' = fork(other)
    /\ pristine' = TRUE
    /\ last' = Rec("fork", "mmu", 0, 0, <<>>, 0, FALSE, Ok, 0, <<>>, FALSE)
    /\ UNCHANGED other

(* mmu.reset(&other); last.size is the length of dirty it found, and       *)
(* last.ret is 0 unless the call before it was a reset that returned, and  *)
(* then 1 + the length of dirty that one found.                            *)
Reset ==
    LET r == reset(mmu, other)
    IN /\ Call("mmu", r.m,
               Rec("reset", "mmu", 0, Len(mmu.dirty), <<>>, 0, FALSE, Ok,
                   IF last.op = "reset" /\ ~last.panic THEN 1 + last.size ELSE 0,
                   <<>>, r.panic))

Perms(T, A, S) ==
    \E t \in T, addr \in A, size \in S :
        LET r == perms_of(M(t), addr, size)
        IN /\ Query(t, Rec("perms", t, addr, size, <<>>, 0, FALSE,
                        r.res, 0, r.ret, FALSE))

CheckPerms(T, A, S, P) ==
    \E t \in T, addr \in A, size \in S, p \in P :
        /\ Query(t, Rec("check_perms", t, addr, size, <<>>, p, FALSE,
                        check_perms(M(t), addr, size, p), 0, <<>>, FALSE))

(* read_with_perms that clears RAW and sets READ on the bytes it read. *)
ReadWithPerms_promotes(T, A, S, P) ==
    \E t \in T, addr \in A, size \in S, p \in P :
        LET r == read_with_perms(M(t), addr, size, p)
            m2 == IF r.res = Ok
                  THEN [M(t) EXCEPT !.perms = PromoteRange(@, addr, addr + size)]
                  ELSE M(t)
        IN /\ Call(t, m2, Rec("read_with_perms", t, addr, size, <<>>, p, FALSE,
                              r.res, 0, r.ret, FALSE))

ReadWithPerms(T, A, S, P) ==
    \E t \in T, addr \in A, size \in S, p \in P :
        LET r == read_with_perms(M(t), addr, size, p)
        IN /\ Query(t, Rec("read_with_perms", t, addr, size, <<>>, p, FALSE,
                        r.res, 0, r.ret, FALSE))

Read(T, A, S) ==
    \E t \in T, addr \in A, size \in S :
        LET r == read(M(t), addr, size)
        IN /\ Query(t, Rec("read", t, addr, size, <<>>, PERM_READ, FALSE,
                        r.res, 0, r.ret, FALSE))

Peek(T, A, S) ==
    \E t \in T, addr \in A, size \in S :
        LET r == peek(M(t), addr, size)
        IN /\ Query(t, Rec("peek", t, addr, size, <<>>, 0, FALSE,
                        r.res, 0, r.ret, FALSE))

(* The integers of the model are 32 bits wide.  A value is of type T when  *)
(* it lies in T's range, which for the types of 4 bytes and more holds of  *)
(* every non-negative value and, for the signed ones, of every value.      *)
InType(value, T) ==
    LET half == IF T.size >= 4 THEN 2 ^ 30 ELSE (256 ^ T.size) \div 2
    IN IF T.size >= 4 THEN T.signed \/ value >= 0
       ELSE IF T.signed THEN 0 - half <= value /\ value < half
       ELSE 0 <= value /\ value < 2 * half

(* The bytes at addr hold a value of type T that the model's integers can  *)
(* hold: the bytes from the fifth on and the top bit of the fourth only    *)
(* extend the sign.                                                        *)
Fits(m, addr, T) ==
    LET bytes == IntBytes(m, addr, T)
        neg == T.signed /\ bytes[T.size] >= 128
    IN IF T.size < 4 THEN TRUE
       ELSE /\ \A k \in 5..T.size : bytes[k] = IF neg THEN 255 ELSE 0
            /\ (bytes[4] >= 128) <=> neg

(* write_int::<T>(addr, value); last.size is size_of::<T>(), last.signed   *)
(* tells a signed T, last.src is the bytes and last.ret the value, in this *)
(* and the next three.                                                     *)
WriteInt(Tg, A, Ty, V) ==
    \E t \in Tg, addr \in A, T \in Ty, value \in V :
        LET r == write_int(M(t), addr, value, T)
        IN /\ InType(value, T)
           /\ Call(t, r.m, IntRec("write_int", t, addr, T,
                                  SubSeq(to_le_bytes(value, T), 1, T.size),
                                  PERM_WRITE, r.res, value))

(* poke_int::<T>(addr, value) *)
PokeInt(Tg, A, Ty, V) ==
    \E t \in Tg, addr \in A, T \in Ty, value \in V :
        LET r == poke_int(M(t), addr, value, T)
        IN /\ InType(value, T)
           /\ Call(t, r.m, IntRec("poke_int", t, addr, T,
                                  SubSeq(to_le_bytes(value, T), 1, T.size),
                                  0, r.res, value))

(* read_int::<T>(addr); last.ret is the value returned. *)
ReadInt(Tg, A, Ty) ==
    \E t \in Tg, addr \in A, T \in Ty :
        LET r == read_int(M(t), addr, T)
        IN /\ Fits(M(t), addr, T)
           /\ Query(t, IntRec("read_int", t, addr, T, <<>>, PERM_READ, r.res, r.ret))

(* peek_int::<T>(addr); last.ret is the value returned. *)
PeekInt(Tg, A, Ty) ==
    \E t \in Tg, addr \in A, T \in Ty :
        LET r == peek_int(M(t), addr, T)
        IN /\ Fits(M(t), addr, T)
           /\ Query(t, IntRec("peek_int", t, addr, T, <<>>, 0, r.res, r.ret))

(* alloc_size(addr); last.ret is the size, or -1 for None. *)
AllocSize(T, A) ==
    \E t \in T, addr \in A :
        /\ Query(t, Rec("alloc_size", t, addr, 0, <<>>, 0, FALSE,
                        Ok, alloc_size(M(t), addr), <<>>, FALSE))

(* mmu = Mmu::new(size), which panics at its assert when size is lower     *)
(* than DIRTY_BLOCK_SIZE; last.size is the size asked for.  The new mmu is *)
(* no copy of other.                                                       *)
NewMmu(Z) ==
    \E size \in Z :
        LET panic == ~(size >= DIRTY_BLOCK_SIZE)
        IN /\ ~last.panic
           /\ budget > 0
           /\ budget' = budget - 1
           /\ last' = Rec("new", "mmu", 0, size, <<>>, 0, FALSE, Ok, 0, <<>>, panic)
           /\ mmu' = IF panic THEN mmu ELSE New(size)
           /\ other' = other
           /\ pristine' = (pristine /\ panic)

(* Two Mmus made by new(size), size in Z; mmu is then a copy of other.    *)
(* The client makes n calls.                                               *)
InitSizes(Z, n) ==
    /\ \E size \in Z : mmu = New(size) /\ other = New(size)
    /\ last = NoCall
    /\ pristine = TRUE
    /\ budget = n

----------------------------------------------------------------------------
(* Spec: every operation, on small inputs.  The arenas are one block and   *)
(* a byte, and eight blocks.                                                *)

Both == {"mmu", "other"}
Arenas == {DIRTY_BLOCK_SIZE + 1, 8 * DIRTY_BLOCK_SIZE}
W == PERM_WRITE
RW == BitOr(PERM_READ, PERM_WRITE)
WRAW == BitOr(PERM_WRITE, PERM_RAW)
RRAW == BitOr(PERM_READ, PERM_RAW)

Init == InitSizes(Arenas, MaxCalls)

Next ==
    \/ SetPerms({"mmu"}, {0, DIRTY_BLOCK_SIZE, UsizeMax}, {1, 2}, {W, WRAW, RRAW})
    \/ Write({"mmu"}, {0, DIRTY_BLOCK_SIZE}, {<<1>>, <<1, 2>>})
    \/ WriteWithPerms({"mmu"}, {0}, {<<3>>}, {RW, PERM_EXEC})
    \/ Poke(Both, {1, UsizeMax}, {<<7>>})
    \/ SetBrk({"mmu"}, {16})
    \/ Malloc({"mmu"}, {1, UsizeMax}, BOOLEAN)
    \/ Free({"mmu"}, DOMAIN mmu.active_allocs \cup {1})
    \/ Fork
    \/ Reset
    \/ Read({"mmu"}, {0}, {1, 2})
    \/ Peek({"mmu"}, {0}, {2})
    \/ CheckPerms({"mmu"}, {0}, {2}, {RW})

Spec == Init /\ [][Next]_vars

----------------------------------------------------------------------------
(* SpecCheck: check_perms and the reads and writes built on it, on every   *)
(* combination of permission bytes at addresses 0 and 1 (address 2 and up  *)
(* hold 0).  The initial states are those two set_perms calls reach; one   *)
(* call is then made.                                                      *)

BytePerms == {0, PERM_EXEC, W, PERM_READ, RW, WRAW, RRAW, BitOr(RW, PERM_RAW), 7, 128}
Expected == {0, PERM_EXEC, W, PERM_READ, RW, 3, 5, 7, 128, BitOr(W, 128)}

InitCheck ==
    /\ \E p0 \in BytePerms, p1 \in BytePerms :
          mmu = set_perms(set_perms(New(DIRTY_BLOCK_SIZE), 0, 1, p0).m, 1, 1, p1).m
    /\ other = New(DIRTY_BLOCK_SIZE)
    /\ last = NoCall
    /\ pristine = FALSE
    /\ budget = 1

NextCheck ==
    \/ CheckPerms({"mmu"}, {0, 1, 2, DIRTY_BLOCK_SIZE - 1}, 0..3, Expected)
    \/ ReadWithPerms({"mmu"}, {0, 1}, {1, 2}, Expected)
    \/ WriteWithPerms({"mmu"}, {0, 1}, {<<5>>, <<5, 6>>}, Expected)

SpecCheck == InitCheck /\ [][NextCheck]_vars

----------------------------------------------------------------------------
(* SpecHeap: the allocator on an arena of eight blocks, with writes and    *)
(* reads of the allocations and a set_perms that gives RWX to a range the  *)
(* guard of a later allocation covers.                                     *)

RWX == BitOr(RW, PERM_EXEC)
HeapSizes == {0, 1, 3, 17}
Bases == DOMAIN mmu.active_allocs

InitHeap == InitSizes({8 * DIRTY_BLOCK_SIZE}, MaxCalls)

NextHeap ==
    \/ Malloc({"mmu"}, HeapSizes, BOOLEAN)
    \/ Free({"mmu"}, Bases \cup {1})
    \/ SetBrk({"mmu"}, {0, 8})
    \/ Write({"mmu"}, Bases \cup {1}, {<<>>, <<1>>, <<1, 2>>, <<0, 1, 2, 3>>})
    \/ Read({"mmu"}, Bases, {1, 3})
    \/ SetPerms({"mmu"}, {32}, {4 * DIRTY_BLOCK_SIZE}, {RWX})

SpecHeap == InitHeap /\ [][NextHeap]_vars

----------------------------------------------------------------------------
(* SpecMalloc: two calls of the allocator, malloc with every size up to    *)
(* MaxMallocSize, on an arena of eight blocks.                             *)

InitMalloc == InitSizes({8 * DIRTY_BLOCK_SIZE}, 2)

NextMalloc ==
    \/ Malloc({"mmu"}, 0..MaxMallocSize, BOOLEAN)
    \/ SetBrk({"mmu"}, {0, 8})

SpecMalloc == InitMalloc /\ [][NextMalloc]_vars

----------------------------------------------------------------------------
(* SpecRaw: permissions and writes on the first bytes of a one-block       *)
(* arena.                                                                  *)

WXRAW == BitOr(WRAW, PERM_EXEC)

InitRaw == InitSizes({DIRTY_BLOCK_SIZE}, MaxCalls)

NextRaw ==
    \/ SetPerms({"mmu"}, {0, 1, 2}, {1, 2, 3}, {W, WRAW, WXRAW})
    \/ Write({"mmu"}, {0, 1}, {<<1, 2>>, <<0, 9, 0>>})
    \/ WriteWithPerms({"mmu"}, {0, 2}, {<<3, 4>>}, {0, PERM_EXEC, 3})
    \/ Poke({"mmu"}, {1}, {<<7>>})

SpecRaw == InitRaw /\ [][NextRaw]_vars

----------------------------------------------------------------------------
(* SpecPerms: set_perms with every value of the four flags, and the checks *)
(* that follow it, on a two-block arena.                                   *)

AllPerms == 0..15

InitPerms == InitSizes({2 * DIRTY_BLOCK_SIZE}, 2)

NextPerms ==
    \/ SetPerms({"mmu"}, {0, 1, DIRTY_BLOCK_SIZE - 1, 2 * DIRTY_BLOCK_SIZE}, 0..2, AllPerms)
    \/ CheckPerms({"mmu"}, {0, 1}, {1, 2}, {PERM_READ, W, RRAW})

SpecPerms == InitPerms /\ [][NextPerms]_vars

----------------------------------------------------------------------------
(* SpecAlloc: the allocator on both Mmus of an eight-block arena, with the *)
(* setters set_brk and set_perms, writes, fork and reset.                  *)

InitAlloc == InitSizes({8 * DIRTY_BLOCK_SIZE}, MaxCalls)

NextAlloc ==
    \/ Malloc(Both, {1, 17}, BOOLEAN)
    \/ Free({"mmu"}, DOMAIN mmu.active_allocs \cup {1})
    \/ SetBrk({"mmu"}, {8})
    \/ SetPerms({"mmu"}, {0}, {1}, {0, W})
    \/ Write({"mmu"}, {0, 8}, {<<1, 2>>})
    \/ Poke({"mmu"}, {0}, {<<7>>})
    \/ Fork
    \/ Reset

SpecAlloc == InitAlloc /\ [][NextAlloc]_vars

----------------------------------------------------------------------------
(* SpecDirty: the dirty list and bitmap of an arena of 65 blocks, whose    *)
(* bitmap indexes two words: ranges that are empty, inside a block, ending *)
(* on a block boundary and crossing one, and fork and reset.               *)

LastBlock == 64 * DIRTY_BLOCK_SIZE
DirtyArena == 65 * DIRTY_BLOCK_SIZE

InitDirty == InitSizes({DirtyArena}, MaxCalls)

NextDirty ==
    \/ SetPerms({"mmu"}, {0, 1, DIRTY_BLOCK_SIZE - 1, LastBlock, DirtyArena},
                {0, 1, 2}, {W})
    \/ SetPerms({"mmu"}, {0}, {DIRTY_BLOCK_SIZE, DIRTY_BLOCK_SIZE + 1}, {WRAW})
    \/ Write({"mmu"}, {0, 1, DIRTY_BLOCK_SIZE - 1}, {<<>>, <<1, 2>>})
    \/ WriteWithPerms({"mmu"}, {5, DIRTY_BLOCK_SIZE}, {<<>>, <<3>>}, {0})
    \/ Poke(Both, {LastBlock + 5}, {<<>>, <<7>>})
    \/ Malloc({"mmu"}, {1}, {TRUE})
    \/ Free({"mmu"}, DOMAIN mmu.active_allocs)
    \/ Fork
    \/ Reset

SpecDirty == InitDirty /\ [][NextDirty]_vars

----------------------------------------------------------------------------
(* SpecBounds: two calls on a one-block arena, with ranges inside it, up   *)
(* to its end, beyond its end, and beyond the address word.                *)

EdgeAddrs == {0, DIRTY_BLOCK_SIZE - 1, DIRTY_BLOCK_SIZE, DIRTY_BLOCK_SIZE + 1, UsizeMax}
EdgeSizes == {0, 1, 2, UsizeMax}
EdgeBytes == {<<>>, <<1>>, <<1, 2>>}

InitBounds == InitSizes({DIRTY_BLOCK_SIZE}, 2)

NextBounds ==
    \/ SetPerms({"mmu"}, EdgeAddrs, EdgeSizes, {W, RW})
    \/ Perms({"mmu"}, EdgeAddrs, EdgeSizes)
    \/ CheckPerms({"mmu"}, EdgeAddrs, EdgeSizes, {W, RW})
    \/ Read({"mmu"}, EdgeAddrs, EdgeSizes)
    \/ ReadWithPerms({"mmu"}, EdgeAddrs, EdgeSizes, {PERM_EXEC})
    \/ Peek({"mmu"}, EdgeAddrs, EdgeSizes)
    \/ Write({"mmu"}, EdgeAddrs, EdgeBytes)
    \/ WriteWithPerms({"mmu"}, EdgeAddrs, EdgeBytes, {RW})
    \/ Poke({"mmu"}, EdgeAddrs, EdgeBytes)

SpecBounds == InitBounds /\ [][NextBounds]_vars

----------------------------------------------------------------------------
(* SpecRW: a write and a read on the first two bytes of a one-block arena, *)
(* which hold every pair of the permissions of BytePerms.                  *)

InitRW ==
    /\ \E p0 \in BytePerms, p1 \in BytePerms :
          mmu = set_perms(set_perms(New(DIRTY_BLOCK_SIZE), 0, 1, p0).m, 1, 1, p1).m
    /\ other = New(DIRTY_BLOCK_SIZE)
    /\ last = NoCall
    /\ pristine = FALSE
    /\ budget = 2

NextRW ==
    \/ Write({"mmu"}, {0, 1}, {<<>>, <<5>>, <<5, 6>>})
    \/ Read({"mmu"}, {0, 1}, {0, 1, 2})

SpecRW == InitRW /\ [][NextRW]_vars

----------------------------------------------------------------------------
(* SpecPoke: three calls on bytes that carry RAW, READ or nothing, with    *)
(* the writes that check no permission, on an arena of two blocks and on   *)
(* one of a block and a byte.                                              *)

InitPoke == InitSizes({DIRTY_BLOCK_SIZE + 1, 2 * DIRTY_BLOCK_SIZE}, 3)

NextPoke ==
    \/ SetPerms({"mmu"}, {0}, {3}, {WRAW, PERM_READ})
    \/ Poke(Both, {1, DIRTY_BLOCK_SIZE - 1, DIRTY_BLOCK_SIZE}, {<<7>>, <<7, 8>>})
    \/ PokeInt({"mmu"}, {1}, {u8, u16}, {258})
    \/ WriteWithPerms({"mmu"}, {0}, {<<3>>}, {0, PERM_EXEC, PERM_READ})
    \/ Peek({"mmu"}, {1, DIRTY_BLOCK_SIZE}, {1, 2})
    \/ Read({"mmu"}, {1}, {1})
    \/ Fork
    \/ Reset

SpecPoke == InitPoke /\ [][NextPoke]_vars

----------------------------------------------------------------------------
(* SpecFree: four calls of malloc, free and alloc_size on an eight-block   *)
(* arena, at a base address, inside an allocation and beyond it.           *)

FreeAddrs == {0, 1, aligned_size(1)}

InitFree == InitSizes({8 * DIRTY_BLOCK_SIZE}, 4)

NextFree ==
    \/ Malloc({"mmu"}, {1, 3}, {FALSE})
    \/ Free({"mmu"}, FreeAddrs)
    \/ AllocSize({"mmu"}, FreeAddrs)

SpecFree == InitFree /\ [][NextFree]_vars

----------------------------------------------------------------------------
(* SpecBrk: three calls of malloc, set_brk and reset, with brk aligned,    *)
(* not aligned and near the end of the address word, on an arena of one    *)
(* block and on one of eight.                                              *)

BrkAddrs == {8, 16, UsizeMax - 4095}
BrkSizes == {0, 1, 17, 4097, UsizeMax - 4094, UsizeMax}

InitBrk == InitSizes({DIRTY_BLOCK_SIZE, 8 * DIRTY_BLOCK_SIZE}, 3)

NextBrk ==
    \/ SetBrk(Both, BrkAddrs)
    \/ Malloc({"mmu"}, BrkSizes, BOOLEAN)
    \/ Reset

SpecBrk == InitBrk /\ [][NextBrk]_vars

----------------------------------------------------------------------------
(* SpecQuery: the operations that take &self, each on inputs that make it  *)
(* succeed and inputs that make it fail, after calls that leave RAW bytes, *)
(* dirty blocks and an allocation behind.                                  *)

QueryEnd == 8 * DIRTY_BLOCK_SIZE

InitQuery == InitSizes({QueryEnd}, 3)

NextQuery ==
    \/ Malloc({"mmu"}, {1}, {TRUE})
    \/ SetPerms({"mmu"}, {0}, {2}, {PERM_READ})
    \/ Poke({"mmu"}, {1}, {<<7>>})
    \/ Read({"mmu"}, {0, QueryEnd}, {1, 2})
    \/ ReadWithPerms({"mmu"}, {0}, {1}, {0, PERM_READ, PERM_WRITE, WRAW})
    \/ ReadInt({"mmu"}, {0, 1}, {u8, u16})
    \/ Peek({"mmu"}, {1, QueryEnd}, {1})
    \/ PeekInt({"mmu"}, {1, QueryEnd - 1}, {u16})
    \/ CheckPerms({"mmu"}, {0}, {1, 2}, {PERM_READ, PERM_WRITE})
    \/ Perms({"mmu"}, {0, QueryEnd}, {1})
    \/ AllocSize({"mmu"}, {0, 1})

SpecQuery == InitQuery /\ [][NextQuery]_vars

----------------------------------------------------------------------------
(* SpecNew: new with sizes around DIRTY_BLOCK_SIZE, around two blocks and  *)
(* around 64 blocks, each of a size that can be allocated, between pokes   *)
(* that leave the previous Mmu changed and dirty.                          *)

NewSizes ==
    {0, DIRTY_BLOCK_SIZE - 1, DIRTY_BLOCK_SIZE, DIRTY_BLOCK_SIZE + 1,
     2 * DIRTY_BLOCK_SIZE - 1, 2 * DIRTY_BLOCK_SIZE, 2 * DIRTY_BLOCK_SIZE + 1,
     64 * DIRTY_BLOCK_SIZE, 64 * DIRTY_BLOCK_SIZE + 1}

InitNew == InitSizes({DIRTY_BLOCK_SIZE}, 3)

NextNew ==
    \/ NewMmu(NewSizes)
    \/ Poke({"mmu"}, {0, DIRTY_BLOCK_SIZE - 1}, {<<7>>})

SpecNew == InitNew /\ [][NextNew]_vars

----------------------------------------------------------------------------
(* SpecInt: the integer operations on every type of LeBytes, on bytes 1..  *)
(* of an arena whose first 32 bytes may have been made readable and        *)
(* writable.  The values have one, two and four significant bytes, and the *)
(* negative ones fill every byte of their type.                            *)

IntTypes == {u8, u16, u32, u64, u128, i8, i16, i32, i64, i128}
WriteValues == {258, 0 - 16909061}
PokeValues == {200, 16909060, 0 - 2}

InitInt == InitSizes({DIRTY_BLOCK_SIZE}, 3)

NextInt ==
    \/ SetPerms({"mmu"}, {0}, {32}, {RW})
    \/ WriteInt({"mmu"}, {1}, IntTypes, WriteValues)
    \/ PokeInt({"mmu"}, {1}, IntTypes, PokeValues)
    \/ ReadInt({"mmu"}, {1}, IntTypes)
    \/ PeekInt({"mmu"}, {1}, IntTypes)
    \/ PeekInt({"mmu"}, {DIRTY_BLOCK_SIZE - 8}, {u64, u128})

SpecInt == InitInt /\ [][NextInt]_vars

----------------------------------------------------------------------------
(* SpecPartial: arenas of one byte less and one byte more than two blocks, *)
(* with calls on the bytes of the last, partial block and on bytes of a    *)
(* whole block, and reset.                                                 *)

PartialArenas == {2 * DIRTY_BLOCK_SIZE - 1, 2 * DIRTY_BLOCK_SIZE + 1}
PartialAddrs == {0, 2 * DIRTY_BLOCK_SIZE - 2, 2 * DIRTY_BLOCK_SIZE}

InitPartial == InitSizes(PartialArenas, 3)

NextPartial ==
    \/ Fork
    \/ SetPerms({"mmu"}, PartialAddrs, {1}, {PERM_WRITE, RW})
    \/ Write({"mmu"}, PartialAddrs, {<<5>>})
    \/ Poke({"mmu"}, PartialAddrs, {<<7>>})
    \/ Reset

SpecPartial == InitPartial /\ [][NextPartial]_vars

----------------------------------------------------------------------------
(* SpecGuard: malloc, free, write, read, poke and peek, with no set_perms, *)
(* set_brk or reset, on the bytes of an allocation, of its guard region    *)
(* and of the next allocation.                                             *)

GuardAddrs == {0, 1, 2, aligned_size(1) - 1, aligned_size(1), aligned_size(1) + 1}

InitGuard == InitSizes({8 * DIRTY_BLOCK_SIZE}, 4)

NextGuard ==
    \/ Malloc({"mmu"}, {0, 2}, BOOLEAN)
    \/ Free({"mmu"}, Bases \cup {1})
    \/ Write({"mmu"}, {0, 1, aligned_size(1) - 1}, {<<>>, <<5>>, <<5, 6>>})
    \/ Read({"mmu"}, {0, 1, aligned_size(1) - 1}, {0, 1, 2})
    \/ Poke({"mmu"}, {1}, {<<7, 8>>})
    \/ Peek({"mmu"}, {1}, {2})

SpecGuard == InitGuard /\ [][NextGuard]_vars

----------------------------------------------------------------------------
(* SpecBump: malloc and free only, five calls, on arenas that have room    *)
(* for no, one and two allocations; the sizes asked for include ones for   *)
(* which size + 0xFFF and brk + aligned size overflow.                     *)

BumpArenas == {DIRTY_BLOCK_SIZE, 4 * DIRTY_BLOCK_SIZE, 8 * DIRTY_BLOCK_SIZE}
BumpSizes == {0, 1, 17, UsizeMax - 4095, UsizeMax}
BumpCalls == 5

InitBump == InitSizes(BumpArenas, BumpCalls)

NextBump ==
    \/ Malloc({"mmu"}, BumpSizes, {FALSE})
    \/ Free({"mmu"}, Bases \cup {1})

SpecBump == InitBump /\ [][NextBump]_vars

----------------------------------------------------------------------------
(* The earlier variant of the Mmu (src/src/mmu.rs).  Its Mmu has no brk    *)
(* and no active_allocs, and its bitmap has size / 1024 / 64 + 1 words.    *)

(* Mmu::new of the earlier variant *)
old_new(size) ==
    [size |-> size,
     memory |-> Zeroes,
     perms |-> Zeroes,
     dirty |-> <<>>,
     dirty_bitmap |-> [w \in 0..((size \div DIRTY_BLOCK_SIZE) \div 64) |-> {}]]

(* Mmu::fork of the earlier variant *)
old_fork(m) ==
    [size |-> m.size,
     memory |-> m.memory,
     perms |-> m.perms,
     dirty |-> <<>>,
     dirty_bitmap |-> [w \in 0..((m.size \div DIRTY_BLOCK_SIZE) \div 64) |-> {}]]

(* Mmu::update_dirty of the earlier variant *)
RECURSIVE old_DirtyBlocks(_, _, _)
old_DirtyBlocks(m, block, block_end) ==
    IF block >= block_end THEN m
    ELSE LET idx == block \div 64
             bit == block % 64
             m1 == IF bit \notin m.dirty_bitmap[idx]
                   THEN [m EXCEPT !.dirty_bitmap[idx] = @ \cup {bit},
                                  !.dirty = Append(@, block)]
                   ELSE m
         IN old_DirtyBlocks(m1, block + 1, block_end)

old_update_dirty(m, addr, size) ==
    old_DirtyBlocks(m, addr \div DIRTY_BLOCK_SIZE,
                    (addr + size + (DIRTY_BLOCK_SIZE - 1)) \div DIRTY_BLOCK_SIZE)

(* Mmu::set_perms of the earlier variant *)
old_set_perms(m, addr, size, perms) ==
    IF addr + size > UsizeMax
    THEN [m |-> m, res |-> Err("AddressIntegerOverflow", addr, size)]
    ELSE IF addr + size > m.size
    THEN [m |-> m, res |-> Err("InvalidAddress", addr, size)]
    ELSE [m |-> old_update_dirty(
                    [m EXCEPT !.perms = FillRange(@, addr, addr + size, perms)],
                    addr, size),
          res |-> Ok]

(* Mmu::check_perms of the earlier variant, from byte i of the range on:   *)
(* UnitializedMemory carries the address only, NotAllowed the address and  *)
(* the expected and current permissions.                                   *)
RECURSIVE old_check_range(_, _, _, _)
old_check_range(m, i, end, perms) ==
    IF i >= end THEN Ok
    ELSE LET p == Get(m.perms, i)
         IN IF BitAnd(perms, PERM_READ) # 0 /\ BitAnd(p, PERM_RAW) # 0
            THEN Err("UnitializedMemory", i, 0)
            ELSE IF BitAnd(p, perms) # perms
            THEN [kind |-> "NotAllowed", addr |-> i, size |-> 0, exp |-> perms, cur |-> p]
            ELSE old_check_range(m, i + 1, end, perms)

old_check_perms(m, addr, size, perms) ==
    IF addr + size > UsizeMax
    THEN Err("AddressIntegerOverflow", addr, size)
    ELSE IF addr + size > m.size
    THEN Err("InvalidAddress", addr, size)
    ELSE old_check_range(m, addr, addr + size, perms)

(* Mmu::write of the earlier variant *)
old_write(m, addr, src) ==
    LET size == Len(src)
        chk == old_check_perms(m, addr, size, PERM_WRITE)
    IN IF chk.kind # "Ok" THEN [m |-> m, res |-> chk]
       ELSE LET end == addr + size
                m1 == [m EXCEPT !.memory = CopyFromSeq(@, addr, end, src)]
                m2 == [m1 EXCEPT !.perms =
                          [i \in DOMAIN @ |->
                              IF addr <= i /\ i < end /\ BitAnd(@[i], PERM_RAW) # 0
                              THEN BitAnd(BitOr(@[i], PERM_READ), BitNot(PERM_RAW))
                              ELSE @[i]]]
            IN [m |-> old_update_dirty(m2, addr, size), res |-> Ok]

(* poke of the earlier variant that marks the blocks dirty. *)
old_poke_dirties(m, addr, src) ==
    LET size == Len(src)
    IN IF addr + size > UsizeMax
       THEN [m |-> m, res |-> Err("AddressIntegerOverflow", addr, size)]
       ELSE IF addr + size > m.size
       THEN [m |-> m, res |-> Err("InvalidAddress", addr, size)]
       ELSE [m |-> old_update_dirty(
                       [m EXCEPT !.memory = CopyFromSeq(@, addr, addr + size, src)],
                       addr, size),
             res |-> Ok]

(* Mmu::poke of the earlier variant: it does not mark memory as dirty. *)
old_poke(m, addr, src) ==
    LET size == Len(src)
    IN IF addr + size > UsizeMax
       THEN [m |-> m, res |-> Err("AddressIntegerOverflow", addr, size)]
       ELSE IF addr + size > m.size
       THEN [m |-> m, res |-> Err("InvalidAddress", addr, size)]
       ELSE [m |-> [m EXCEPT !.memory = CopyFromSeq(@, addr, addr + size, src)],
             res |-> Ok]

(* Mmu::reset of the earlier variant, from the k-th dirty block on; it     *)
(* panics where a slice reaches beyond the memory.                         *)
RECURSIVE old_reset_blocks(_, _, _)
old_reset_blocks(m, o, k) ==
    IF k > Len(m.dirty) THEN [m |-> m, panic |-> FALSE]
    ELSE LET block == m.dirty[k]
             start == block * DIRTY_BLOCK_SIZE
             end == (block + 1) * DIRTY_BLOCK_SIZE
             m1 == [m EXCEPT !.dirty_bitmap[block \div 64] = {}]
         IN IF end > m.size \/ end > o.size
            THEN [m |-> m1, panic |-> TRUE]
            ELSE old_reset_blocks(
                     [m1 EXCEPT !.memory = CopyFromVec(@, start, end, o.memory),
                                !.perms = CopyFromVec(@, start, end, o.perms)],
                     o, k + 1)

old_reset(m, o) ==
    LET r == old_reset_blocks(m, o, 1)
    IN IF r.panic THEN r ELSE [m |-> [r.m EXCEPT !.dirty = <<>>], panic |-> FALSE]

(* SpecVariants: the same calls made on an Mmu of the variant in scope,    *)
(* held in mmu, and on an Mmu of the earlier variant, held in other.  Both *)
(* were forked from a fresh Mmu of their variant, which is the donor of    *)
(* their resets.  last holds the result of the variant in scope.           *)

Variants(m2, o2, l) ==
    /\ ~last.panic
    /\ budget > 0
    /\ budget' = budget - 1
    /\ last' = l
    /\ mmu' = m2
    /\ other' = o2
    /\ pristine' = pristine

BothSetPerms(A, S, P) ==
    \E addr \in A, size \in S, p \in P :
        LET r == set_perms(mmu, addr, size, p)
        IN /\ Variants(r.m, old_set_perms(other, addr, size, p).m,
                       Rec("set_perms", "mmu", addr, size, <<>>, p, FALSE, r.res, 0,
                           <<>>, FALSE))

BothWrite(A, D) ==
    \E addr \in A, src \in D :
        LET r == write(mmu, addr, src)
        IN /\ Variants(r.m, old_write(other, addr, src).m,
                       Rec("write", "mmu", addr, Len(src), src, PERM_WRITE, FALSE, r.res,
                           0, <<>>, FALSE))

BothPoke(A, D) ==
    \E addr \in A, src \in D :
        LET r == poke(mmu, addr, src)
        IN /\ Variants(r.m, old_poke(other, addr, src).m,
                       Rec("poke", "mmu", addr, Len(src), src, 0, FALSE, r.res, 0,
                           <<>>, FALSE))

BothReset ==
    LET r == reset(mmu, New(mmu.size))
        o == old_reset(other, old_new(other.size))
    IN /\ Variants(r.m, o.m,
                   Rec("reset", "mmu", 0, Len(mmu.dirty), <<>>, 0, FALSE, Ok, 0, <<>>,
                       r.panic \/ o.panic))

VariantArenas == {2 * DIRTY_BLOCK_SIZE, 2 * DIRTY_BLOCK_SIZE + 1}
VariantAddrs == {1, DIRTY_BLOCK_SIZE, 2 * DIRTY_BLOCK_SIZE}

InitVariants ==
    /\ \E size \in VariantArenas : mmu = fork(New(size)) /\ other = old_fork(old_new(size))
    /\ last = NoCall
    /\ pristine = FALSE
    /\ budget = 3

NextVariants ==
    \/ BothSetPerms(VariantAddrs, {2}, {PERM_WRITE, WRAW})
    \/ BothWrite(VariantAddrs, {<<>>, <<5>>, <<5, 6>>})
    \/ BothPoke({1, DIRTY_BLOCK_SIZE - 2}, {<<7>>, <<1, 2, 3, 4>>})
    \/ BothReset

SpecVariants == InitVariants /\ [][NextVariants]_vars

----------------------------------------------------------------------------
(* Predicates shared by the properties *)

Has(p, flag) == BitAnd(p, flag) # 0

Clean(m) == m.dirty = <<>> /\ \A w \in DOMAIN m.dirty_bitmap : m.dirty_bitmap[w] = {}

SameContents(m, o) ==
    /\ m.memory = o.memory
    /\ m.perms = o.perms
    /\ m.brk = o.brk
    /\ m.active_allocs = o.active_allocs

NoRawRead(m) ==
    \A i \in DOMAIN m.perms : ~(Has(m.perms[i], PERM_RAW) /\ Has(m.perms[i], PERM_READ))

(* The call recorded in last was made on a range inside the arena. *)
InBounds == last.addr + last.size <= M(last.on).size

(* Byte i of the Mmu m violates the expected permissions e. *)
Violates(m, i, e) ==
    \/ Has(e, PERM_READ) /\ Has(Get(m.perms, i), PERM_RAW)
    \/ BitAnd(Get(m.perms, i), e) # e

(* The violating bytes of the range of the call recorded in l, made on m. *)
Violating(m, l) == {i \in l.addr..(l.addr + l.size - 1) : Violates(m, i, l.perms)}

(* Every byte of v[lo..hi] is 0: no non-zero byte has its index there. *)
AllZero(v, lo, hi) == \A i \in DOMAIN v : ~(lo <= i /\ i < hi)

(* The non-empty ranges <<a, len>> inside [lo, hi). *)
SubRanges(lo, hi) == {r \in (lo..(hi - 1)) \X (1..(hi - lo)) : r[1] + r[2] <= hi}

(* The live allocations of m do not overlap. *)
NoOverlap(m) ==
    \A a, b \in DOMAIN m.active_allocs :
        (a < b) => (a + m.active_allocs[a] <= b)

(* Every byte of a live allocation of m has a non-zero permission. *)
AllocsAccessible(m) ==
    \A a \in DOMAIN m.active_allocs :
        \A i \in a..(a + m.active_allocs[a] - 1) : Get(m.perms, i) # 0

(* Every live allocation of m ends at or below brk. *)
AllocsBelowBrk(m) ==
    \A a \in DOMAIN m.active_allocs : a + m.active_allocs[a] <= m.brk

(* The blocks in the dirty list of m. *)
DirtySet(m) == {m.dirty[k] : k \in DOMAIN m.dirty}

(* The blocks whose bit is set in the dirty bitmap of m. *)
BitmapSet(m) ==
    UNION {{64 * w + bit : bit \in m.dirty_bitmap[w]} : w \in DOMAIN m.dirty_bitmap}

(* s is a prefix of t. *)
IsPrefix(s, t) == Len(s) <= Len(t) /\ SubSeq(t, 1, Len(s)) = s

(* ceil(x / DIRTY_BLOCK_SIZE) *)
CeilBlock(x) ==
    (x \div DIRTY_BLOCK_SIZE) + (IF x % DIRTY_BLOCK_SIZE = 0 THEN 0 ELSE 1)

(* The blocks lo..hi that are not in the dirty list of m, in ascending     *)
(* order.                                                                  *)
NewBlocks(m, lo, hi) ==
    LET NotDirty(b) == b \notin DirtySet(m)
    IN SelectSeq([k \in 1..(hi - lo + 1) |-> lo + k - 1], NotDirty)

(* The calls that mark their range dirty. *)
RangeOps == {"set_perms", "write", "write_with_perms", "poke"}

(* Byte i of m carried RAW and byte i of m2 does not. *)
RawCleared(m, m2, i) == Has(Get(m.perms, i), PERM_RAW) /\ ~Has(Get(m2.perms, i), PERM_RAW)

(* i lies in the range of the call recorded in l. *)
InRange(l, i) == l.addr <= i /\ i < l.addr + l.size

(* The Mmu named t after the step. *)
MNext(t) == IF t = "mmu" THEN mmu' ELSE other'

(* n bytes to write *)
Bytes(n) == [k \in 1..n |-> 65]

(* The lowest address of a non-empty set of addresses. *)
Lowest(V) == CHOOSE i \in V : \A j \in V : i <= j

----------------------------------------------------------------------------
(* C1: after any sequence of operations on an Mmu made by new(n), or on a  *)
(* fork of a donor that has not changed since, reset(donor) leaves the Mmu *)
(* equal to the donor in memory, perms, brk and active_allocs, with dirty  *)
(* empty and dirty_bitmap all zero.  Stated as the claim states it; it     *)
(* fails on an arena whose size is not a multiple of DIRTY_BLOCK_SIZE,     *)
(* where reset panics on the last, partial block.                          *)
C1_ResetRestoresDonor ==
    (last.op = "reset" /\ pristine) =>
        (~last.panic /\ SameContents(mmu, other) /\ Clean(mmu))

(* C2: a call of set_perms, write, write_with_perms, poke, malloc or free  *)
(* that returns an error leaves the whole Mmu (and the other Mmu) as it    *)
(* was before the call.                                                    *)
C2_ErrorChangesNothing ==
    [][(last'.op \in {"set_perms", "write", "write_with_perms", "poke", "malloc", "free"}
        /\ last'.res.kind # "Ok")
       => (mmu' = mmu /\ other' = other)]_vars

(* C2 witness: a two-byte write fails with WriteFault although its first   *)
(* byte is writable, on an Mmu that earlier calls have changed.            *)
C2_Witness ==
    /\ last.op = "write" /\ last.on = "mmu"
    /\ last.res.kind = "WriteFault"
    /\ last.size = 2
    /\ Has(Get(mmu.perms, last.addr), PERM_WRITE)
    /\ mmu.dirty # <<>>

(* C10 as claimed: in every reachable state no permission byte carries     *)
(* both RAW and READ.  It fails: set_perms stores any permission value.    *)
C10_NoRawWithRead == NoRawRead(mmu) /\ NoRawRead(other)

(* C10 amended: a byte carrying both RAW and READ first appears only by a  *)
(* set_perms call whose perms argument carries both; no other operation    *)
(* (write*, poke, malloc, free, set_brk, fork, reset) creates one.         *)
C10_OnlySetPermsStoresRawWithRead ==
    [][(NoRawRead(mmu) /\ NoRawRead(other)
        /\ ~(last'.op = "set_perms" /\ Has(last'.perms, PERM_RAW)
                                    /\ Has(last'.perms, PERM_READ)))
       => (NoRawRead(mmu') /\ NoRawRead(other'))]_vars

(* C10 witness: a write has promoted a RAW byte to READ and no byte        *)
(* carries both flags.                                                     *)
C10_Witness ==
    /\ last.op = "write" /\ last.res.kind = "Ok"
    /\ Get(mmu.perms, last.addr) = RW
    /\ mmu.active_allocs = [a \in {} |-> 0]
    /\ NoRawRead(mmu)

(* C3: on an in-bounds range check_perms returns Ok iff no byte violates;  *)
(* otherwise the error is decided by the violating byte of lowest address: *)
(* UninitFault if expected includes READ and that byte carries RAW, else a *)
(* missing-permission fault; the error carries the call's addr and size.   *)
C3_CheckPermsFirstViolation ==
    (last.op = "check_perms" /\ InBounds) =>
        LET V == Violating(mmu, last)
        IN IF V = {} THEN last.res = Ok
           ELSE LET b == Get(mmu.perms, Lowest(V))
                IN /\ last.res.addr = last.addr
                   /\ last.res.size = last.size
                   /\ IF Has(last.perms, PERM_READ) /\ Has(b, PERM_RAW)
                      THEN last.res.kind = "UninitFault"
                      ELSE last.res.kind \in
                               {"ReadFault", "WriteFault", "ExecFault", "UnkFault"}

(* C3 witness: READ|WRITE is expected of two bytes; the first lacks READ   *)
(* and the second carries RAW, and the fault is that of the first byte.    *)
C3_Witness ==
    /\ last.op = "check_perms" /\ last.addr = 0 /\ last.size = 2 /\ last.perms = RW
    /\ Get(mmu.perms, 0) = W
    /\ Get(mmu.perms, 1) = WRAW
    /\ last.res.kind = "ReadFault"

(* C4: the fault names a flag that is missing.  ReadFault only if expected *)
(* includes READ and the offending byte lacks READ, WriteFault only if     *)
(* expected includes WRITE and the byte lacks WRITE, ExecFault only if     *)
(* expected includes EXEC and the byte lacks EXEC; UnkFault carries        *)
(* expected and the byte's permission.  Stated as the claim states it; it  *)
(* fails, since the code names the first flag of expected in the order     *)
(* READ, WRITE, EXEC whichever flag the byte lacks.                        *)
C4_FaultNamesMissingFlag ==
    (last.op \in {"check_perms", "read_with_perms", "write_with_perms"}
     /\ last.on = "mmu" /\ InBounds /\ Violating(mmu, last) # {}
     /\ last.res.kind # "Ok") =>
        LET b == Get(mmu.perms, Lowest(Violating(mmu, last)))
            e == last.perms
        IN /\ last.res.kind = "ReadFault" => (Has(e, PERM_READ) /\ ~Has(b, PERM_READ))
           /\ last.res.kind = "WriteFault" => (Has(e, PERM_WRITE) /\ ~Has(b, PERM_WRITE))
           /\ last.res.kind = "ExecFault" => (Has(e, PERM_EXEC) /\ ~Has(b, PERM_EXEC))
           /\ last.res.kind = "UnkFault" => (last.res.exp = e /\ last.res.cur = b)

(* C5: right after a successful p = malloc(n, false) every byte of         *)
(* [p, p+n) has exactly WRITE|READ, so every write and read of a non-empty *)
(* sub-range succeeds; every byte of the guard [p+n, brk) has permission   *)
(* 0; check_perms requiring READ or WRITE fails on every range that        *)
(* contains p+n, and a write of n+1 bytes at p fails with WriteFault.      *)
C5_MallocUsableAndGuarded ==
    (last.op = "malloc" /\ last.res.kind = "Ok" /\ ~last.raw) =>
        LET p == last.ret
            n == last.size
        IN /\ \A i \in p..(p + n - 1) : Get(mmu.perms, i) = RW
           /\ \A r \in SubRanges(p, p + n) :
                 /\ write(mmu, r[1], Bytes(r[2])).res.kind = "Ok"
                 /\ read(mmu, r[1], r[2]).res.kind = "Ok"
           /\ AllZero(mmu.perms, p + n, mmu.brk)
           /\ mmu.brk > p + n
           /\ \A a \in p..(p + n), len \in 1..(n + 2),
                e \in {PERM_READ, W, RW, 3, 5, RWX} :
                 (a + len > p + n) => check_perms(mmu, a, len, e).kind # "Ok"
           /\ write(mmu, p, Bytes(n + 1)).res.kind = "WriteFault"

(* C5 witness: malloc(3, false) has succeeded at 0 after set_perms had     *)
(* given RWX to 32..4128: the guard 3..4096 is 0, byte 4096 is still RWX.  *)
C5_Witness ==
    /\ last.op = "malloc" /\ last.res.kind = "Ok" /\ ~last.raw
    /\ last.ret = 0 /\ last.size = 3
    /\ Get(mmu.perms, mmu.brk) = RWX
    /\ Get(mmu.perms, mmu.brk - 1) = 0

(* C6: right after p = malloc(n, true) a read of every non-empty sub-range *)
(* of [p, p+n) fails with UninitFault; and when the next call is           *)
(* write(p, src) with k = |src| <= n, then a read of [p, p+k) succeeds and *)
(* returns src, while a read of every sub-range of [p, p+n) that reaches a *)
(* byte at or beyond p+k fails with UninitFault.                           *)
C6_RawAllocationReads ==
    [][/\ (last'.op = "malloc" /\ last'.res.kind = "Ok" /\ last'.raw) =>
            \A r \in SubRanges(last'.ret, last'.ret + last'.size) :
                read(mmu', r[1], r[2]).res.kind = "UninitFault"
       /\ (/\ last.op = "malloc" /\ last.res.kind = "Ok" /\ last.raw
           /\ last'.op = "write" /\ last'.addr = last.ret
           /\ last'.size <= last.size) =>
            LET p == last.ret
                n == last.size
                k == last'.size
            IN /\ last'.res.kind = "Ok"
               /\ read(mmu', p, k) = [res |-> Ok, ret |-> last'.src]
               /\ \A r \in SubRanges(p, p + n) :
                     (r[1] + r[2] > p + k) =>
                         read(mmu', r[1], r[2]).res.kind = "UninitFault"]_vars

(* C6 witness: two bytes have been written at the base of a raw            *)
(* allocation of three bytes: the first two are WRITE|READ, the third is   *)
(* still WRITE|RAW.                                                        *)
C6_Witness ==
    /\ last.op = "write" /\ last.res.kind = "Ok" /\ last.size = 2
    /\ last.addr \in Bases
    /\ mmu.active_allocs[last.addr] = 3
    /\ Get(mmu.perms, last.addr) = RW
    /\ Get(mmu.perms, last.addr + 2) = WRAW

(* C7: a successful free(p) of an allocation of n bytes leaves every byte  *)
(* of [p, p+n) with permission 0; every write of a non-empty sub-range     *)
(* then fails with WriteFault and every read with ReadFault; alloc_size(p) *)
(* is absent and a second free(p) fails with InvalidFree.                  *)
C7_FreeRevokes ==
    [][(last'.op = "free" /\ last'.res.kind = "Ok") =>
          LET p == last'.addr
              n == mmu.active_allocs[p]
          IN /\ \A i \in p..(p + n - 1) : Get(mmu'.perms, i) = 0
             /\ \A r \in SubRanges(p, p + n) :
                   /\ write(mmu', r[1], Bytes(r[2])).res.kind = "WriteFault"
                   /\ read(mmu', r[1], r[2]).res.kind = "ReadFault"
             /\ alloc_size(mmu', p) = -1
             /\ free(mmu', p).res.kind = "InvalidFree"]_vars

(* C7 witness: an allocation that was written has been freed. *)
C7_Witness ==
    /\ last.op = "free" /\ last.res.kind = "Ok"
    /\ last.addr \notin Bases
    /\ Get(mmu.memory, last.addr) # 0
    /\ Get(mmu.perms, last.addr) = 0

(* C8 as claimed: after a successful malloc(n, raw) the distance from the  *)
(* end of the n usable bytes to the next allocation is at least 4096.  It  *)
(* fails: (n + 0xFFF) & ~0xF - n lies between 4080 and 4095.               *)
C8_GuardAtLeast4096 ==
    (last.op = "malloc" /\ last.res.kind = "Ok") =>
        mmu.brk - last.ret - last.size >= 4096

(* C8 amended: after a successful malloc(n, raw) the zero-permission guard *)
(* that follows the n usable bytes, up to the next allocation at brk, is   *)
(* at least 4080 (0xFF0) bytes long.                                       *)
C8_GuardAtLeast4080 ==
    (last.op = "malloc" /\ last.res.kind = "Ok") =>
        /\ mmu.brk - last.ret - last.size >= 4080
        /\ AllZero(mmu.perms, last.ret + last.size, mmu.brk)

(* C8 witness: malloc(16, raw) has succeeded and its guard is exactly 4080 *)
(* bytes long.                                                             *)
C8_Witness ==
    /\ last.op = "malloc" /\ last.res.kind = "Ok" /\ last.size = 16
    /\ mmu.brk - last.ret - last.size = 4080

(* C9: a successful write_with_perms whose expected permissions include    *)
(* WRITE (write among them) changes the permission of exactly the bytes of *)
(* its range that carried RAW: RAW is cleared, READ is set and the other   *)
(* bits stay; every other byte keeps its permission.  On                   *)
(* set_perms(0, 3, W|RAW); write(0, [1, 2]) the permissions become         *)
(* W|R, W|R, W|RAW, 0 and the memory 1, 2, 0, 0.                           *)
C9_WritePromotesRaw ==
    [][/\ (/\ last'.op \in {"write", "write_with_perms"}
           /\ last'.res.kind = "Ok"
           /\ Has(last'.perms, PERM_WRITE)) =>
            \A i \in DOMAIN mmu.perms \cup DOMAIN mmu'.perms
                     \cup (last'.addr..(last'.addr + last'.size - 1)) :
                LET old == Get(mmu.perms, i)
                    new == Get(mmu'.perms, i)
                IN IF /\ last'.addr <= i /\ i < last'.addr + last'.size
                      /\ Has(old, PERM_RAW)
                   THEN /\ Has(new, PERM_READ) /\ ~Has(new, PERM_RAW)
                        /\ BitAnd(new, BitNot(RRAW)) = BitAnd(old, BitNot(RRAW))
                   ELSE new = old
       /\ (/\ mmu = set_perms(New(mmu.size), 0, 3, WRAW).m
           /\ last'.op = "write" /\ last'.addr = 0 /\ last'.src = <<1, 2>>) =>
            /\ last'.res.kind = "Ok"
            /\ Slice(mmu'.perms, 0, 4) = <<RW, RW, WRAW, 0>>
            /\ Slice(mmu'.memory, 0, 4) = <<1, 2, 0, 0>>]_vars

(* C9 witness: the write of [1, 2] at 0 after set_perms(0, 3, W|RAW). *)
C9_Witness ==
    /\ last.op = "write" /\ last.res.kind = "Ok"
    /\ last.addr = 0 /\ last.src = <<1, 2>>
    /\ Slice(mmu.perms, 0, 4) = <<RW, RW, WRAW, 0>>
    /\ Slice(mmu.memory, 0, 4) = <<1, 2, 0, 0>>

(* C11 as claimed: right after a successful set_perms(addr, size, perms),  *)
(* for every value of the four flags, check_perms(addr, size, perms)       *)
(* succeeds.  It fails for a non-empty range when perms carries READ and   *)
(* RAW: the check finds RAW on a byte that READ is expected of.            *)
C11_SetPermsThenCheckOk ==
    (last.op = "set_perms" /\ last.res.kind = "Ok") =>
        check_perms(mmu, last.addr, last.size, last.perms).kind = "Ok"

(* C11 amended: right after a successful set_perms(addr, size, perms),     *)
(* check_perms(addr, size, perms) succeeds when the range is empty or      *)
(* perms does not carry both READ and RAW, and fails with UninitFault when *)
(* the range is non-empty and perms carries both.                          *)
C11_SetPermsThenCheck ==
    (last.op = "set_perms" /\ last.res.kind = "Ok") =>
        LET chk == check_perms(mmu, last.addr, last.size, last.perms)
        IN IF /\ last.size > 0
              /\ Has(last.perms, PERM_READ) /\ Has(last.perms, PERM_RAW)
           THEN chk = Err("UninitFault", last.addr, last.size)
           ELSE chk = Ok

(* C11 witness: set_perms has stored EXEC|WRITE|RAW on two bytes that      *)
(* cross into a range an earlier set_perms had given another value, and    *)
(* the check of that range with the same value succeeds.                   *)
C11_Witness ==
    /\ last.op = "set_perms" /\ last.res.kind = "Ok"
    /\ last.addr = 0 /\ last.size = 2 /\ last.perms = WXRAW
    /\ Get(mmu.perms, 2) = RW
    /\ check_perms(mmu, 0, 2, WXRAW) = Ok

(* C12 as claimed: in every reachable state the live allocations do not    *)
(* overlap and every byte of a live allocation has a non-zero permission.  *)
(* It fails: set_brk moves brk below a live allocation and the next malloc *)
(* overlaps it; set_perms stores 0 on an allocated byte.                   *)
C12_AllocationsDisjointAccessible ==
    ~last.panic => (NoOverlap(mmu) /\ AllocsAccessible(mmu))

(* C12 amended: every operation other than set_brk and set_perms (malloc,  *)
(* free, write, poke, fork, and reset from a donor unchanged since the     *)
(* receiver was made from it) preserves: the live allocations do not       *)
(* overlap, every byte of a live allocation has a non-zero permission, and *)
(* every live allocation ends at or below brk.                             *)
C12_AllocatorPreservesLayout ==
    [][(/\ NoOverlap(mmu) /\ AllocsAccessible(mmu) /\ AllocsBelowBrk(mmu)
        /\ NoOverlap(other) /\ AllocsAccessible(other) /\ AllocsBelowBrk(other)
        /\ last'.op \notin {"set_brk", "set_perms"}
        /\ (last'.op = "reset" => pristine)
        /\ ~last'.panic)
       => (/\ NoOverlap(mmu') /\ AllocsAccessible(mmu') /\ AllocsBelowBrk(mmu')
           /\ NoOverlap(other') /\ AllocsAccessible(other')
           /\ AllocsBelowBrk(other'))]_vars

(* C12 witness: two allocations are live, one byte at 0 and the next one   *)
(* beyond its guard at 4096, every byte of them accessible.                *)
C12_Witness ==
    /\ last.op = "malloc" /\ last.res.kind = "Ok" /\ last.on = "mmu"
    /\ DOMAIN mmu.active_allocs = {0, aligned_size(1)}
    /\ mmu.active_allocs[0] = 1
    /\ NoOverlap(mmu) /\ AllocsAccessible(mmu) /\ AllocsBelowBrk(mmu)

(* C13: in every state reached through new, fork, set_perms, write*, poke, *)
(* malloc, free and reset, on both Mmus, block b is in dirty iff bit       *)
(* b mod 64 of dirty_bitmap[b div 64] is set; so it is after a reset that  *)
(* found dirty blocks of both bitmap words.                                *)
C13_DirtyMatchesBitmap ==
    ~last.panic =>
        /\ DirtySet(mmu) = BitmapSet(mmu)
        /\ DirtySet(other) = BitmapSet(other)

(* C13 witness: reset has found five blocks dirty, the four of a malloc in *)
(* the first bitmap word and block 64 in the second, and has left the list *)
(* empty and both words zero.                                              *)
C13_Witness ==
    /\ last.op = "reset" /\ ~last.panic /\ last.size = 5
    /\ Clean(mmu)

(* C14: a successful set_perms with size 0, and a successful write,        *)
(* write_with_perms or poke of an empty source, leave dirty and            *)
(* dirty_bitmap unchanged, at every address.  Stated as the claim states   *)
(* it; it fails at every address that is not a multiple of 1024, where     *)
(* update_dirty rounds the end of the range up to the next block.          *)
C14_EmptyRangeDirtiesNothing ==
    [][(last'.op \in RangeOps /\ last'.res.kind = "Ok" /\ last'.size = 0)
       => (/\ mmu'.dirty = mmu.dirty /\ mmu'.dirty_bitmap = mmu.dirty_bitmap
           /\ other'.dirty = other.dirty
           /\ other'.dirty_bitmap = other.dirty_bitmap)]_vars

(* C15: a successful set_perms, write, write_with_perms or poke on a       *)
(* non-empty range [addr, addr+len) appends to dirty the blocks of         *)
(* floor(addr/1024) .. ceil((addr+len)/1024)-1 that were not dirty, sets   *)
(* their bits, and changes nothing else of the list and the bitmap; so a   *)
(* range ending on a block boundary leaves the next block alone and a      *)
(* range crossing one dirties both blocks.                                 *)
C15_RangeDirtiesItsBlocks ==
    [][(last'.op \in RangeOps /\ last'.res.kind = "Ok" /\ last'.size > 0)
       => LET m == M(last'.on)
              m2 == IF last'.on = "mmu" THEN mmu' ELSE other'
              lo == last'.addr \div DIRTY_BLOCK_SIZE
              hi == CeilBlock(last'.addr + last'.size) - 1
          IN /\ m2.dirty = m.dirty \o NewBlocks(m, lo, hi)
             /\ BitmapSet(m2) = BitmapSet(m) \cup (lo..hi)
             /\ (last'.on = "mmu") => (other'.dirty = other.dirty)
             /\ (last'.on = "other") => (mmu'.dirty = mmu.dirty)]_vars

(* C15 witness: set_perms on the two bytes 1023 and 1024 has added block 0 *)
(* behind block 1, which was dirty already.                                *)
C15_Witness ==
    /\ last.op = "set_perms" /\ last.res.kind = "Ok"
    /\ last.addr = DIRTY_BLOCK_SIZE - 1 /\ last.size = 2
    /\ mmu.dirty = <<1, 0>>

(* C16: dirty holds each block at most once, and every operation other     *)
(* than reset (and than the fork that makes a new Mmu) leaves the dirty    *)
(* list it found as a prefix of the new one: blocks stay in the order in   *)
(* which they were first dirtied, and the list shrinks only at reset.      *)
C16_DirtyGrowsInOrder ==
    [][/\ \A i, j \in DOMAIN mmu'.dirty : (mmu'.dirty[i] = mmu'.dirty[j]) => (i = j)
       /\ \A i, j \in DOMAIN other'.dirty :
              (other'.dirty[i] = other'.dirty[j]) => (i = j)
       /\ (last'.op \notin {"reset", "fork"}) =>
              (IsPrefix(mmu.dirty, mmu'.dirty) /\ IsPrefix(other.dirty, other'.dirty))
      ]_vars

(* C16 witness: a poke in block 64, dirtied first, after block 0 was       *)
(* dirtied second: the list is still 64, 0.                                *)
C16_Witness ==
    /\ last.op = "poke" /\ last.on = "mmu" /\ last.res.kind = "Ok" /\ last.size = 1
    /\ mmu.dirty = <<64, 0>>

C18_RangeErrorsFirst ==
    (last.op \in {"set_perms", "perms", "check_perms", "read", "read_with_perms",
                  "write", "write_with_perms", "peek", "poke"}) =>
        IF last.addr + last.size > UsizeMax
        THEN last.res = Err("AddressIntegerOverflow", last.addr, last.size)
        ELSE IF last.addr + last.size > M(last.on).size
        THEN last.res = Err("InvalidAddress", last.addr, last.size)
        ELSE last.res.kind \notin {"AddressIntegerOverflow", "InvalidAddress"}

(* C18 witness: a read of two bytes at the last byte of the arena, which   *)
(* is not readable, fails with InvalidAddress and not with ReadFault.      *)
C18_Witness ==
    /\ last.op = "read" /\ last.addr = mmu.size - 1 /\ last.size = 2
    /\ last.res.kind = "InvalidAddress"
    /\ Get(mmu.perms, mmu.size - 1) = W

(* C19: write(addr, src) on a range inside the arena succeeds iff every    *)
(* byte of the range has WRITE, and then memory[addr .. addr+|src|) is src *)
(* and no other memory byte has changed; read(addr, dst) succeeds iff      *)
(* every byte of the range has READ and none has RAW, and then returns the *)
(* memory bytes.  Where no permission was set a non-empty write gives      *)
(* WriteFault and a non-empty read ReadFault; on a range of WRITE|READ     *)
(* bytes the read that follows a write of the range returns the bytes      *)
(* written.                                                                *)
C19_WriteReadContract ==
    [][/\ (last'.op = "write" /\ last'.addr + last'.size <= mmu.size) =>
            /\ (last'.res.kind = "Ok") <=>
                   (\A i \in last'.addr..(last'.addr + last'.size - 1) :
                        Has(Get(mmu.perms, i), PERM_WRITE))
            /\ (last'.res.kind = "Ok") =>
                   /\ Slice(mmu'.memory, last'.addr, last'.addr + last'.size) = last'.src
                   /\ \A i \in DOMAIN mmu.memory \cup DOMAIN mmu'.memory :
                          ~InRange(last', i) => Get(mmu'.memory, i) = Get(mmu.memory, i)
            /\ (mmu.perms = Zeroes /\ last'.size > 0) => last'.res.kind = "WriteFault"
       /\ (last'.op = "read" /\ last'.addr + last'.size <= mmu.size) =>
            /\ (last'.res.kind = "Ok") <=>
                   (\A i \in last'.addr..(last'.addr + last'.size - 1) :
                        /\ Has(Get(mmu.perms, i), PERM_READ)
                        /\ ~Has(Get(mmu.perms, i), PERM_RAW))
            /\ (last'.res.kind = "Ok") =>
                   last'.data = Slice(mmu.memory, last'.addr, last'.addr + last'.size)
            /\ (mmu.perms = Zeroes /\ last'.size > 0) => last'.res.kind = "ReadFault"
            /\ (/\ last.op = "write" /\ last.res.kind = "Ok"
                /\ last'.addr = last.addr /\ last'.size = last.size
                /\ \A i \in last.addr..(last.addr + last.size - 1) :
                       Get(mmu.perms, i) = RW) =>
                   (last'.res.kind = "Ok" /\ last'.data = last.src)]_vars

(* C19 witness: the two bytes written at 0 have been read back. *)
C19_Witness ==
    /\ last.op = "read" /\ last.res.kind = "Ok"
    /\ last.addr = 0 /\ last.size = 2
    /\ last.data = <<5, 6>>
    /\ Slice(mmu.perms, 0, 2) = <<RW, RW>>

(* C20 as claimed: in every step in which a byte of an Mmu goes from       *)
(* carrying RAW to not carrying it, the call is a successful write or      *)
(* write_with_perms on that Mmu whose expected permissions include WRITE   *)
(* and whose range covers the byte.  It fails: set_perms, and malloc and   *)
(* free through it, and reset overwrite the permission byte.               *)
C20_OnlyWriteClearsRaw ==
    [][(last'.op # "fork") =>
          /\ \A i \in DOMAIN mmu.perms :
                RawCleared(mmu, mmu', i) =>
                    /\ last'.op \in {"write", "write_with_perms"}
                    /\ last'.on = "mmu" /\ last'.res.kind = "Ok"
                    /\ Has(last'.perms, PERM_WRITE) /\ InRange(last', i)
          /\ \A i \in DOMAIN other.perms :
                RawCleared(other, other', i) =>
                    /\ last'.op \in {"write", "write_with_perms"}
                    /\ last'.on = "other" /\ last'.res.kind = "Ok"
                    /\ Has(last'.perms, PERM_WRITE) /\ InRange(last', i)]_vars

(* C20 amended: in every step in which a byte of an Mmu goes from carrying *)
(* RAW to not carrying it, the call is either a successful write or        *)
(* write_with_perms whose expected permissions include WRITE and whose     *)
(* range covers the byte, or one that stores whole permission bytes: a     *)
(* successful set_perms over the byte with a value without RAW, a malloc   *)
(* whose region covers it, the free of an allocation that covers it, or a  *)
(* reset in which the byte's block was dirty.  poke, and write_with_perms  *)
(* without WRITE expected, never clear RAW.                                *)
C20_RawClearedByWriteOrStore ==
    [][(last'.op # "fork") =>
          /\ \A i \in DOMAIN other.perms : ~RawCleared(other, other', i)
          /\ \A i \in DOMAIN mmu.perms :
                RawCleared(mmu, mmu', i) =>
                    /\ last'.on = "mmu"
                    /\ ~last'.panic => last'.res.kind = "Ok"
                    /\ CASE last'.op \in {"write", "write_with_perms"} ->
                               Has(last'.perms, PERM_WRITE) /\ InRange(last', i)
                         [] last'.op = "set_perms" ->
                               InRange(last', i) /\ ~Has(last'.perms, PERM_RAW)
                         [] last'.op = "malloc" ->
                               mmu.brk <= i /\ i < mmu'.brk
                         [] last'.op = "free" ->
                               /\ last'.addr <= i
                               /\ i < last'.addr + mmu.active_allocs[last'.addr]
                         [] last'.op = "reset" ->
                               (i \div DIRTY_BLOCK_SIZE) \in DirtySet(mmu)
                         [] OTHER -> FALSE]_vars

(* C20 witness: write of one byte at 0 has promoted byte 0 of a two-byte   *)
(* WRITE|RAW range; byte 1 still carries RAW.                              *)
C20_Witness ==
    /\ last.op = "write" /\ last.res.kind = "Ok"
    /\ last.addr = 0 /\ last.size = 1
    /\ Get(mmu.perms, 0) = RW
    /\ Get(mmu.perms, 1) = WRAW

(* C21: poke, poke_int and write_with_perms with an expected permission    *)
(* without WRITE leave every permission byte of both Mmus as it was; and   *)
(* after a successful one every byte of its range that carries RAW still   *)
(* fails a read with UninitFault.                                          *)
C21_UncheckedWritesKeepPerms ==
    [][(\/ last'.op \in {"poke", "poke_int"}
        \/ (last'.op = "write_with_perms" /\ ~Has(last'.perms, PERM_WRITE))) =>
          /\ mmu'.perms = mmu.perms
          /\ other'.perms = other.perms
          /\ (last'.res.kind = "Ok") =>
                \A i \in last'.addr..(last'.addr + last'.size - 1) :
                    Has(Get(M(last'.on).perms, i), PERM_RAW) =>
                        /\ Has(Get(MNext(last'.on).perms, i), PERM_RAW)
                        /\ Get(MNext(last'.on).memory, i) = last'.src[i - last'.addr + 1]
                        /\ read(MNext(last'.on), i, 1).res.kind = "UninitFault"]_vars

(* C21 witness: poke_int::<u16> has stored 258 in the bytes 1 and 2, which *)
(* still are WRITE|RAW.                                                    *)
C21_Witness ==
    /\ last.op = "poke_int" /\ last.res.kind = "Ok" /\ last.size = 2
    /\ Slice(mmu.memory, 1, 3) = <<2, 1>>
    /\ Slice(mmu.perms, 1, 3) = <<WRAW, WRAW>>

(* C22: poke on a range inside the arena succeeds whatever the permissions *)
(* are, stores src and leaves every block it touches dirty, and a reset    *)
(* against the donor then returns with the poked bytes equal to the        *)
(* donor's; peek on a range inside the arena succeeds whatever the         *)
(* permissions are and returns the bytes stored.  Stated as the claim      *)
(* states it; it fails for a poke into the last, partial block of an arena *)
(* whose size is not a multiple of 1024, where the reset panics.           *)
C22_PokeAndPeekUnchecked ==
    [][/\ (last'.op = "poke" /\ last'.on = "mmu"
           /\ last'.addr + last'.size <= mmu.size) =>
            /\ last'.res.kind = "Ok"
            /\ Slice(mmu'.memory, last'.addr, last'.addr + last'.size) = last'.src
            /\ \A i \in last'.addr..(last'.addr + last'.size - 1) :
                   (i \div DIRTY_BLOCK_SIZE) \in DirtySet(mmu')
            /\ LET r == reset(mmu', other')
               IN /\ ~r.panic
                  /\ Slice(r.m.memory, last'.addr, last'.addr + last'.size)
                         = Slice(other'.memory, last'.addr, last'.addr + last'.size)
       /\ (last'.op = "peek" /\ last'.addr + last'.size <= mmu.size) =>
            /\ last'.res.kind = "Ok"
            /\ last'.data = Slice(mmu.memory, last'.addr, last'.addr + last'.size)]_vars

(* C23: free(a) succeeds iff a is a key of active_allocs; for every other  *)
(* address (never allocated, inside an allocation, already freed) it       *)
(* returns InvalidFree and changes nothing.  alloc_size(a) is the size     *)
(* given to the malloc that returned a while that allocation is live, and  *)
(* absent for every other address: a successful malloc(n) makes it n at    *)
(* the address returned, a successful free makes it absent there, and      *)
(* neither changes it at any other address.                                *)
C23_FreeAndAllocSize ==
    [][/\ (last'.op = "free") =>
            /\ (last'.res.kind = "Ok") <=> (last'.addr \in DOMAIN mmu.active_allocs)
            /\ (last'.addr \notin DOMAIN mmu.active_allocs) =>
                   /\ last'.res = Err("InvalidFree", last'.addr, 0)
                   /\ mmu' = mmu
            /\ (last'.res.kind = "Ok") =>
                   /\ alloc_size(mmu', last'.addr) = -1
                   /\ \A a \in FreeAddrs \ {last'.addr} :
                          alloc_size(mmu', a) = alloc_size(mmu, a)
       /\ (last'.op = "malloc" /\ last'.res.kind = "Ok") =>
            /\ alloc_size(mmu', last'.ret) = last'.size
            /\ \A a \in FreeAddrs \ {last'.ret} :
                   alloc_size(mmu', a) = alloc_size(mmu, a)
       /\ (last'.op = "alloc_size") =>
            last'.ret = IF last'.addr \in DOMAIN mmu.active_allocs
                        THEN mmu.active_allocs[last'.addr] ELSE -1]_vars

(* C23 witness: the second free of address 0 has failed with InvalidFree   *)
(* while the allocation that followed it is live.                          *)
C23_Witness ==
    /\ last.op = "free" /\ last.addr = 0
    /\ last.res.kind = "InvalidFree"
    /\ DOMAIN mmu.active_allocs = {aligned_size(1)}
    /\ Get(mmu.perms, 0) = 0

(* C24: every address returned by a successful malloc is a multiple of 16, *)
(* in every reachable state.  Stated as the claim states it; it fails      *)
(* after set_brk with an address that is not a multiple of 16, which       *)
(* malloc returns as it is.                                                *)
C24_MallocAligned16 ==
    (last.op = "malloc" /\ last.res.kind = "Ok") => (last.ret % 16 = 0)

(* C29: malloc(n, raw) returns AddressIntegerOverflow when n + 0xFFF or    *)
(* brk + aligned_size overflows the address word, InvalidAddress when      *)
(* brk + aligned_size exceeds the arena size (every malloc on the          *)
(* 1024-byte arena), and succeeds otherwise; when it fails the whole Mmu   *)
(* is as it was.                                                           *)
C29_MallocErrors ==
    [][(last'.op = "malloc") =>
          LET b == mmu.brk
              n == last'.size
              asz == (n + 4095) - ((n + 4095) % 16)
          IN /\ last'.res.kind =
                    IF n + 4095 > UsizeMax \/ b + asz > UsizeMax
                    THEN "AddressIntegerOverflow"
                    ELSE IF b + asz > mmu.size THEN "InvalidAddress" ELSE "Ok"
             /\ (mmu.size = DIRTY_BLOCK_SIZE /\ n + 4095 <= UsizeMax /\ b <= mmu.size)
                    => last'.res.kind = "InvalidAddress"
             /\ (last'.res.kind # "Ok") => (mmu' = mmu /\ other' = other)]_vars

(* C29 witness: malloc(17) has failed with AddressIntegerOverflow because  *)
(* brk + aligned_size overflows, and brk is where it was.                  *)
C29_Witness ==
    /\ last.op = "malloc" /\ last.size = 17
    /\ last.res.kind = "AddressIntegerOverflow"
    /\ mmu.brk = UsizeMax - 4095
    /\ mmu.active_allocs = [a \in {} |-> 0]

(* C25: fork returns an Mmu whose size, memory, perms, brk and             *)
(* active_allocs equal the source's and whose dirty is empty and           *)
(* dirty_bitmap all zero, of the source's length, also when the source is  *)
(* dirty, and leaves the source as it was; after it every call on the fork *)
(* (reset included) leaves the source unchanged and every call on the      *)
(* source leaves the fork unchanged.                                       *)
C25_ForkIndependent ==
    [][/\ (last'.op = "fork") =>
            /\ mmu'.size = other.size
            /\ SameContents(mmu', other)
            /\ Clean(mmu')
            /\ DOMAIN mmu'.dirty_bitmap = DOMAIN other.dirty_bitmap
            /\ other' = other
       /\ (last'.op # "fork" /\ last'.on = "mmu") => other' = other
       /\ (last'.on = "other") => mmu' = mmu]_vars

(* C25 witness: a fork of a source that was poked and is dirty: the fork   *)
(* holds the poked byte and is clean.                                      *)
C25_Witness ==
    /\ last.op = "fork"
    /\ other.dirty # <<>>
    /\ Get(mmu.memory, 1) = 7
    /\ Clean(mmu)

(* C26: for an Mmu and a donor that has not been modified since the Mmu    *)
(* was made from it, a reset that immediately follows a reset that         *)
(* returned returns too and leaves the whole Mmu as the first reset left   *)
(* it.                                                                     *)
C26_ResetIdempotent ==
    [][(/\ last.op = "reset" /\ ~last.panic
        /\ last'.op = "reset"
        /\ pristine) =>
          (~last'.panic /\ mmu' = mmu /\ other' = other)]_vars

(* C26 witness: a second reset in a row, after a first one that found      *)
(* four blocks dirty.                                                      *)
C26_Witness ==
    /\ last.op = "reset" /\ ~last.panic /\ pristine
    /\ last.ret = 5 /\ last.size = 0
    /\ Clean(mmu) /\ SameContents(mmu, other)

(* C27: read, read_with_perms, read_int, peek, peek_int, check_perms,      *)
(* perms and alloc_size, whether they succeed or fail, leave every         *)
(* component of both Mmus as it was: no block becomes dirty and no RAW     *)
(* flag is cleared.                                                        *)
QueryOps ==
    {"read", "read_with_perms", "read_int", "peek", "peek_int", "check_perms",
     "perms", "alloc_size"}

C27_QueriesChangeNothing ==
    [][(last'.op \in QueryOps) => (mmu' = mmu /\ other' = other)]_vars

(* C27 witness: a read_with_perms expecting WRITE|RAW that succeeded on a  *)
(* byte of a raw allocation: the byte is still RAW and the Mmu is as dirty *)
(* as malloc left it.                                                      *)
C27_Witness ==
    /\ last.op = "read_with_perms" /\ last.res = Ok
    /\ last.perms = WRAW
    /\ Get(mmu.perms, 0) = WRAW
    /\ Len(mmu.dirty) = 4

(* C28: a malloc(n, raw) that succeeds with brk = b returns b, records     *)
(* active_allocs[b] = n, sets brk to b + ((n + 0xFFF) & ~0xF) and leaves   *)
(* every block that overlaps [b, b + aligned size) dirty; of two mallocs   *)
(* in a row that succeed, the second returns the first's address plus the  *)
(* first's aligned size.                                                   *)
Aligned(n) == (n + 4095) - ((n + 4095) % 16)

MallocOk(l) == l.op = "malloc" /\ l.res = Ok

C28_MallocEffects ==
    [][MallocOk(last') =>
         LET b == mmu.brk
             n == last'.size
         IN /\ last'.ret = b
            /\ b \in DOMAIN mmu'.active_allocs
            /\ mmu'.active_allocs[b] = n
            /\ mmu'.brk = b + Aligned(n)
            /\ \A blk \in (b \div DIRTY_BLOCK_SIZE)..((b + Aligned(n) - 1) \div DIRTY_BLOCK_SIZE) :
                   blk \in DirtySet(mmu')
            /\ MallocOk(last) => last'.ret = last.ret + Aligned(last.size)]_vars

(* C28 witness: malloc(1) at 0 and then malloc(3), which returns 4096 and  *)
(* leaves brk at 8192 and all eight blocks dirty.                          *)
C28_Witness ==
    /\ MallocOk(last)
    /\ last.ret = 4096 /\ last.size = 3
    /\ mmu.active_allocs = (0 :> 1) @@ (4096 :> 3)
    /\ mmu.brk = 8192
    /\ DirtySet(mmu) = 0..7

(* C30: new(size) panics exactly when size < 1024; otherwise it yields an  *)
(* Mmu of that size with memory and perms all zero, an empty dirty list,   *)
(* brk 0, no live allocation and an all-zero dirty_bitmap of               *)
(* ceil(size / 1024) words: 2 words for sizes 2047 and 2048, 3 for 2049.   *)
C30_NewContract ==
    [][(last'.op = "new") =>
         LET size == last'.size
         IN /\ last'.panic <=> size < 1024
            /\ ~last'.panic =>
                 /\ mmu'.size = size
                 /\ AllZero(mmu'.memory, 0, size)
                 /\ AllZero(mmu'.perms, 0, size)
                 /\ mmu'.dirty = <<>>
                 /\ mmu'.brk = 0
                 /\ DOMAIN mmu'.active_allocs = {}
                 /\ DOMAIN mmu'.dirty_bitmap = 0..(CeilBlock(size) - 1)
                 /\ \A w \in DOMAIN mmu'.dirty_bitmap : mmu'.dirty_bitmap[w] = {}
                 /\ size \in {2047, 2048} => Cardinality(DOMAIN mmu'.dirty_bitmap) = 2
                 /\ size = 2049 => Cardinality(DOMAIN mmu'.dirty_bitmap) = 3]_vars

(* C30 witness: new(2049) as the third call: an Mmu of 2049 zero bytes     *)
(* with a bitmap of three words.                                           *)
C30_Witness ==
    /\ last.op = "new" /\ ~last.panic
    /\ budget = 0
    /\ last.size = 2049 /\ mmu.size = 2049
    /\ DOMAIN mmu.dirty_bitmap = 0..2
    /\ mmu.memory = Zeroes /\ mmu.dirty = <<>>

(* C31: for every type of 1, 2, 4, 8 or 16 bytes and every value v of it,  *)
(* a write_int or poke_int that succeeds at a stores the little-endian     *)
(* bytes of v at a .. a + w and changes no other byte; a read_int or       *)
(* peek_int of the same type at a that follows and succeeds returns v; a   *)
(* peek_int of a wider type returns v zero-extended when the bytes from    *)
(* a + w up to the wider width are zero.                                   *)
IntWrites == {"write_int", "poke_int"}
IntReads == {"read_int", "peek_int"}

(* Byte k (from 0) of v in two's complement; v has 32 bits. *)
LeByte(v, k) ==
    IF k < 4 THEN (v \div (256 ^ k)) % 256 ELSE IF v < 0 THEN 255 ELSE 0

ZeroExtended(v, w) == IF v >= 0 THEN v ELSE v + 256 ^ w

C31_IntRoundTrip ==
    [][/\ (last'.op \in IntWrites /\ last'.res = Ok) =>
            LET a == last'.addr
                w == last'.size
            IN /\ \A k \in 0..(w - 1) : Get(mmu'.memory, a + k) = LeByte(last'.ret, k)
               /\ \A i \in DOMAIN mmu.memory \cup DOMAIN mmu'.memory :
                      (i < a \/ i >= a + w) => Get(mmu'.memory, i) = Get(mmu.memory, i)
       /\ (/\ last.op \in IntWrites /\ last.res = Ok
           /\ last'.op \in IntReads /\ last'.res = Ok
           /\ last'.addr = last.addr) =>
            /\ (last'.size = last.size /\ last'.signed = last.signed) =>
                   last'.ret = last.ret
            /\ (/\ last'.size > last.size
                /\ IF last.size < 4 THEN TRUE ELSE last.ret >= 0
                /\ \A i \in (last.addr + last.size)..(last.addr + last'.size - 1) :
                       Get(mmu.memory, i) = 0) =>
                   last'.ret = ZeroExtended(last.ret, last.size)]_vars

(* C31 witness: read_int::<i64> returns the -16909061 that                 *)
(* write_int::<i64> has just stored in eight bytes, the upper four 0xFF.   *)
C31_Witness ==
    /\ last.op = "read_int" /\ last.res = Ok
    /\ last.size = 8 /\ last.signed
    /\ last.ret = 0 - 16909061
    /\ Slice(mmu.memory, 1, 9) = <<251, 252, 253, 254, 255, 255, 255, 255>>

(* C32: every block b in dirty has (b + 1) * 1024 <= size, also on arenas  *)
(* whose size is no multiple of 1024 after a byte of the last, partial     *)
(* block was written or had its permission changed, so that reset indexes  *)
(* nothing beyond the arena and returns.                                   *)
C32_DirtyBlocksWithinArena ==
    /\ \A b \in DirtySet(mmu) : (b + 1) * DIRTY_BLOCK_SIZE <= mmu.size
    /\ (last.op = "reset") => ~last.panic

(* C33: while the donor has not been modified since the Mmu was made from  *)
(* it, every byte whose memory or permission differs from the donor's lies *)
(* in a block listed in the Mmu's dirty, whatever set_perms, write, poke,  *)
(* malloc and free have done.                                              *)
Changed(m, o) ==
    {i \in DOMAIN m.memory \cup DOMAIN o.memory : Get(m.memory, i) # Get(o.memory, i)}
    \cup {i \in DOMAIN m.perms \cup DOMAIN o.perms : Get(m.perms, i) # Get(o.perms, i)}

C33_ChangedBytesAreDirty ==
    pristine => \A i \in Changed(mmu, other) : (i \div DIRTY_BLOCK_SIZE) \in DirtySet(mmu)

(* C33 witness: a write of two bytes across the boundary of blocks 0 and 1 *)
(* of an Mmu that is a fork of the donor: memory and perms differ from the *)
(* donor's in both blocks.                                                 *)
C33_Witness ==
    /\ pristine
    /\ last.op = "write" /\ last.res = Ok /\ last.addr = DIRTY_BLOCK_SIZE - 1
    /\ Get(mmu.memory, DIRTY_BLOCK_SIZE - 1) = 1 /\ Get(mmu.memory, DIRTY_BLOCK_SIZE) = 2
    /\ other.memory = Zeroes /\ other.perms = Zeroes
    /\ {i \div DIRTY_BLOCK_SIZE : i \in Changed(mmu, other)} = {0, 1}

(* C34: reset(donor) copies from the donor exactly the blocks listed in    *)
(* the receiver's dirty, each listed once, and leaves memory and perms of  *)
(* every other block of the receiver as they were, also where the donor    *)
(* differs there.                                                          *)
CopiedExactly(m, o, m2) ==
    \A i \in DOMAIN m.memory \cup DOMAIN o.memory \cup DOMAIN m2.memory
             \cup DOMAIN m.perms \cup DOMAIN o.perms \cup DOMAIN m2.perms :
        LET from == IF (i \div DIRTY_BLOCK_SIZE) \in DirtySet(m) THEN o ELSE m
        IN /\ Get(m2.memory, i) = Get(from.memory, i)
           /\ Get(m2.perms, i) = Get(from.perms, i)

C34_ResetCopiesExactlyDirty ==
    [][(last'.op = "reset") =>
          /\ Cardinality(DirtySet(mmu)) = Len(mmu.dirty)
          /\ CopiedExactly(mmu, other, mmu')]_vars

(* C35: free never changes brk and a malloc that succeeds strictly         *)
(* increases it; in a run without set_brk and reset, an address of a       *)
(* region [p, p + aligned size) that a malloc has returned is in no region *)
(* that a later malloc returns, whether or not the allocation was freed    *)
(* in between.  (A call is told from a later one by the budget it left.)   *)
Handed(a) ==
    MallocOk(last) /\ last.ret <= a /\ a < last.ret + Aligned(last.size)

RegionAddrs == {0, 1, 4095, 4096, 4097, 8191}

C35_NoReuse ==
    /\ [][/\ (last'.op = "free") => mmu'.brk = mmu.brk
          /\ MallocOk(last') => mmu'.brk > mmu.brk]_vars
    /\ \A a \in RegionAddrs : \A k \in 0..4 :
           []((Handed(a) /\ budget = k) => [](Handed(a) => budget = k))

(* C35 witness: malloc, free of the allocation and a second malloc, which  *)
(* returns the address after the freed region.                             *)
C35_Witness ==
    /\ MallocOk(last) /\ last.ret = 4096
    /\ budget = 1
    /\ DOMAIN mmu.active_allocs = {4096}
    /\ mmu.brk = 8192

(* C36: a byte of the guard region of an allocation or of a freed          *)
(* allocation has permission 0 and keeps it through every later malloc,    *)
(* free, write, read, poke and peek, and every read or write that touches  *)
(* a byte of permission 0 fails.  In a run without set_perms, set_brk and  *)
(* reset the bytes of guard regions and freed allocations are the bytes    *)
(* below brk outside the live allocations.                                 *)
GuardOrFreed(a) ==
    /\ a < mmu.brk
    /\ \A p \in DOMAIN mmu.active_allocs : ~(p <= a /\ a < p + mmu.active_allocs[p])

C36_GuardAndFreedStayClosed ==
    /\ \A a \in GuardAddrs : [](GuardOrFreed(a) => [](Get(mmu.perms, a) = 0))
    /\ [][(/\ last'.op \in {"read", "write"}
           /\ \E i \in last'.addr..(last'.addr + last'.size - 1) : Get(mmu.perms, i) = 0) =>
              (last'.res # Ok /\ mmu' = mmu)]_vars

(* C36 witness: malloc(2), free and a poke over the freed bytes, then a    *)
(* write to them that fails: they have permission 0 and hold the poked     *)
(* data.                                                                   *)
C36_Witness ==
    /\ last.op = "write" /\ last.res.kind = "WriteFault" /\ last.addr = 1
    /\ mmu.brk = aligned_size(2) /\ DOMAIN mmu.active_allocs = {}
    /\ Get(mmu.memory, 1) = 7
    /\ Get(mmu.perms, 1) = 0

(* C37: in a run of malloc and free on an arena of size S, every malloc    *)
(* that succeeds advances brk by at least 0xFF0, no other call changes     *)
(* brk, brk never exceeds S, and a malloc made when brk + 0xFF0 > S fails  *)
(* with one of the errors in kinds and changes nothing, however many       *)
(* allocations were freed; at most floor(S / 0xFF0) mallocs succeed: none  *)
(* when S < 0xFF0, one when S < 2 * 0xFF0, two when S < 3 * 0xFF0.         *)
MinStep == aligned_size(0)

BumpStep(kinds) ==
    /\ MallocOk(last') => mmu'.brk >= mmu.brk + MinStep
    /\ ~MallocOk(last') => mmu'.brk = mmu.brk
    /\ (last'.op = "malloc" /\ mmu.brk + MinStep > mmu.size) =>
           (last'.res.kind \in kinds /\ mmu' = mmu)

AtMostTwo ==
    \A k1 \in 0..BumpCalls : \A k2 \in 0..BumpCalls :
        []((MallocOk(last) /\ budget = k1) =>
             []((MallocOk(last) /\ budget = k2 /\ k2 < k1) =>
                  [](MallocOk(last) => budget = k2)))

AtMostOne ==
    \A k \in 0..BumpCalls :
        []((MallocOk(last) /\ budget = k /\ mmu.size < 2 * MinStep) =>
             [](MallocOk(last) => budget = k))

AtMostFloor ==
    /\ [](mmu.brk <= mmu.size)
    /\ [](mmu.size < MinStep => ~MallocOk(last))
    /\ AtMostOne
    /\ AtMostTwo

(* C37 as claimed: the malloc made when brk + 0xFF0 > S fails with         *)
(* InvalidAddress.                                                         *)
C37_ExhaustedGivesInvalidAddress ==
    [][BumpStep({"InvalidAddress"})]_vars /\ AtMostFloor

(* C37 amended: it fails with InvalidAddress, or with                      *)
(* AddressIntegerOverflow when size + 0xFFF or brk + aligned size          *)
(* overflows.                                                              *)
C37_MallocCountBounded ==
    [][BumpStep({"InvalidAddress", "AddressIntegerOverflow"})]_vars /\ AtMostFloor

(* C37 witness: two mallocs have succeeded on the arena of 8192 bytes, the *)
(* allocations were freed, and a malloc of one byte has then failed with   *)
(* InvalidAddress.                                                         *)
C37_Witness ==
    /\ last.op = "malloc" /\ last.res.kind = "InvalidAddress" /\ last.size = 1
    /\ mmu.size = 8 * DIRTY_BLOCK_SIZE
    /\ mmu.brk = 2 * aligned_size(1)
    /\ DOMAIN mmu.active_allocs = {}
    /\ budget = 0

(* C38: in the earlier variant poke stores the bytes without marking a     *)
(* block dirty, so that reset leaves poked bytes in blocks that nothing    *)
(* else dirtied: after poke of 1, 2, 3, 4 at 1022 and set_perms(1024, 2,   *)
(* WRITE), reset against a fresh donor leaves 1, 2, 0, 0 at 1022, where    *)
(* the variant in scope leaves 0, 0, 0, 0.  A set_perms, write or reset    *)
(* made on two Mmus of the two variants that agree on memory, perms and    *)
(* dirty leaves them in agreement, so that the variants agree after every  *)
(* sequence of these calls without a poke.                                 *)
Agree(m, o) == m.memory = o.memory /\ m.perms = o.perms /\ m.dirty = o.dirty

Example ==
    /\ last.op = "set_perms" /\ last.addr = DIRTY_BLOCK_SIZE
    /\ last.perms = PERM_WRITE /\ last.res = Ok
    /\ Slice(other.memory, DIRTY_BLOCK_SIZE - 2, DIRTY_BLOCK_SIZE + 2) = <<1, 2, 3, 4>>
    /\ Slice(mmu.memory, DIRTY_BLOCK_SIZE - 2, DIRTY_BLOCK_SIZE + 2) = <<1, 2, 3, 4>>
    /\ budget = 1

C38_VariantsDifferOnPokeOnly ==
    /\ Agree(mmu, other)
    /\ [][/\ (last'.op = "poke") =>
               /\ other'.dirty = other.dirty
               /\ last'.res = Ok =>
                      Slice(other'.memory, last'.addr, last'.addr + last'.size)
                          = last'.src
               /\ other'.perms = other.perms
          /\ (Example /\ last'.op = "reset") =>
               /\ ~last'.panic
               /\ Slice(other'.memory, DIRTY_BLOCK_SIZE - 2, DIRTY_BLOCK_SIZE + 2)
                      = <<1, 2, 0, 0>>
               /\ Slice(mmu'.memory, DIRTY_BLOCK_SIZE - 2, DIRTY_BLOCK_SIZE + 2)
                      = <<0, 0, 0, 0>>
          /\ (Agree(mmu, other) /\ last'.op # "poke") => Agree(mmu', other')]_vars

(* C38 witness: the state after poke, set_perms and reset: the earlier     *)
(* variant still holds the poked 1 and 2 in block 0 and is clean, the      *)
(* variant in scope holds zeroes.                                          *)
C38_Witness ==
    /\ last.op = "reset" /\ ~last.panic
    /\ budget = 0
    /\ Slice(other.memory, DIRTY_BLOCK_SIZE - 2, DIRTY_BLOCK_SIZE + 2) = <<1, 2, 0, 0>>
    /\ mmu.memory = Zeroes
    /\ other.dirty = <<>> /\ mmu.dirty = <<>>

(* C39: every block in dirty is below ceil(size / 1024), the number of     *)
(* blocks for which new and fork reserve the list and the number of words  *)
(* of the bitmap; so dirty is never longer than that, and word block div   *)
(* 64 of the bitmap exists for every block that reset finds in dirty and   *)
(* for every block of a range that set_perms, write, write_with_perms or   *)
(* poke hands to update_dirty.                                             *)
BlocksInBounds(m) ==
    /\ DOMAIN m.dirty_bitmap = 0..(CeilBlock(m.size) - 1)
    /\ \A b \in DirtySet(m) :
          /\ b < CeilBlock(m.size)
          /\ (b \div 64) \in DOMAIN m.dirty_bitmap
    /\ Len(m.dirty) <= CeilBlock(m.size)

UpdateDirtyInBounds ==
    (/\ last'.op \in {"set_perms", "write", "write_with_perms", "poke"}
     /\ last'.res = Ok) =>
        LET m == IF last'.on = "mmu" THEN mmu' ELSE other'
        IN \A b \in (last'.addr \div DIRTY_BLOCK_SIZE)
                        ..(CeilBlock(last'.addr + last'.size) - 1) :
               /\ b < CeilBlock(m.size)
               /\ (b \div 64) \in DOMAIN m.dirty_bitmap

C39_DirtyWithinCapacity ==
    /\ [](BlocksInBounds(mmu) /\ BlocksInBounds(other))
    /\ [][UpdateDirtyInBounds]_vars

(* C39 witness: on the arena of 2047 bytes a set_perms has made the last,  *)
(* partial block dirty after block 0, so that dirty holds                  *)
(* ceil(2047 / 1024) = 2 blocks, as many as were reserved.                 *)
C39_Witness ==
    /\ last.op = "set_perms" /\ last.res = Ok /\ last.on = "mmu"
    /\ mmu.size = 2 * DIRTY_BLOCK_SIZE - 1
    /\ mmu.dirty = <<0, 1>>
    /\ Len(mmu.dirty) = CeilBlock(mmu.size)
    /\ mmu.dirty_bitmap[0] = {0, 1}

====
